---- MODULE Spec2Model ----
(***************************************************************************)
(* Model of the RIFF/AVI creation-time patchers of image-tools:            *)
(*   avi_riff_utils.py, avi_riff_date_fixer.py and the AVI part of         *)
(*   metadata_time_changer.py (MetadataTimeChanger).                       *)
(* Files are sequences of bytes (0..255); the timestamp codec is modelled  *)
(* on the text it reads and writes; the patch operation is a sequence of   *)
(* steps over a small file system, each I/O step able to raise.            *)
(***************************************************************************)
EXTENDS Integers, Sequences, FiniteSets, TLC

\* ------------------------------------------------------------------------
\* Bounds of the model
\* ------------------------------------------------------------------------
\* largest number of trailing NUL bytes of a sample payload
MaxPad == 2
\* largest magnitude, in days, of a sample time adjustment
MaxDeltaDays == 3
\* largest value of an <integer><unit> pair of a duration expression
MaxValue == 2
\* most pairs in a duration expression
MaxPairs == 2
\* most media files find_media_files discovers
MaxFiles == 2

\* ------------------------------------------------------------------------
\* Bytes and text
\* ------------------------------------------------------------------------
NUL == 0
SP == 32
COLON == 58

\* str.isspace() / regex \s on ASCII text
IsSpace(b) == b \in {9, 10, 11, 12, 13, 28, 29, 30, 31, 32}
IsDigit(b) == b >= 48 /\ b <= 57
DigitVal(b) == b - 48

\* str.upper() on one ASCII character
UpperByte(b) == IF b >= 97 /\ b <= 122 THEN b - 32 ELSE b
Upper(s) == [i \in 1..Len(s) |-> UpperByte(s[i])]

Drop(s, n) == SubSeq(s, n + 1, Len(s))
Take(s, n) == SubSeq(s, 1, n)
\* Python slice s[a:b] of a sequence, 0-based, clipped to the sequence
Slice(s, a, b) ==
    LET hi == IF b > Len(s) THEN Len(s) ELSE b
    IN  IF a >= hi THEN <<>> ELSE SubSeq(s, a + 1, hi)
Nuls(n) == [i \in 1..n |-> NUL]

\* b"IDIT"
IDIT == <<73, 68, 73, 84>>

\* bytes.find(tag): 0-based index of the first occurrence, -1 when absent
RECURSIVE FindFrom(_, _, _)
FindFrom(data, tag, i) ==
    IF i + Len(tag) > Len(data) THEN -1
    ELSE IF SubSeq(data, i + 1, i + Len(tag)) = tag THEN i
    ELSE FindFrom(data, tag, i + 1)
\* variant: bytes.rfind(tag), the last occurrence
Find_Last(data, tag) ==
    LET hits == { i \in 0..Len(data) : i + Len(tag) <= Len(data)
                                       /\ SubSeq(data, i + 1, i + Len(tag)) = tag }
    IN  IF hits = {} THEN -1 ELSE CHOOSE i \in hits : \A j \in hits : j <= i
Find(data, tag) == FindFrom(data, tag, 0)

\* struct.unpack("<L", b)[0] on exactly four bytes
UnpackLE32(b) == b[1] + 256 * b[2] + 65536 * b[3] + 16777216 * b[4]
\* struct.pack("<L", n)
PackLE32(n) == << n % 256, (n \div 256) % 256, (n \div 65536) % 256,
                  (n \div 16777216) % 256 >>

\* ------------------------------------------------------------------------
\* Chunk locators
\* ------------------------------------------------------------------------
NotFound == [kind |-> "none", pos |-> -1, data |-> <<>>]
Raised == [kind |-> "raise", pos |-> -1, data |-> <<>>]
Found(pos, payload) == [kind |-> "found", pos |-> pos, data |-> payload]
\* no locator has been called yet
NotLocated == [kind |-> "unset", pos |-> -1, data |-> <<>>]

\* variant: the window test is off by one
find_idit_chunk_utils_OffByOne(data) ==
    LET pos == Find(data, IDIT) IN
    IF pos = -1 THEN NotFound
    ELSE IF pos + 4 >= Len(data) THEN NotFound
    ELSE LET size_bytes == Slice(data, pos + 4, pos + 8) IN
         IF Len(size_bytes) # 4 THEN NotFound
         ELSE LET chunk_size == UnpackLE32(size_bytes)
                  date_start == pos + 8
                  date_end == date_start + chunk_size
              IN  IF date_end > Len(data) + 1 THEN NotFound
                  ELSE Found(pos, Slice(data, date_start, date_end))

\* avi_riff_utils.find_idit_chunk
find_idit_chunk_utils(data) ==
    LET pos == Find(data, IDIT) IN
    IF pos = -1 THEN NotFound
    ELSE IF pos + 4 >= Len(data) THEN NotFound
    ELSE LET size_bytes == Slice(data, pos + 4, pos + 8) IN
         IF Len(size_bytes) # 4 THEN NotFound
         ELSE LET chunk_size == UnpackLE32(size_bytes)
                  date_start == pos + 8
                  date_end == date_start + chunk_size
              IN  IF date_end > Len(data) THEN NotFound
                  ELSE Found(pos, Slice(data, date_start, date_end))

\* avi_riff_date_fixer.find_idit_chunk
find_idit_chunk(data) ==
    LET pos == Find(data, IDIT) IN
    IF pos = -1 THEN NotFound
    ELSE IF pos + 4 >= Len(data) THEN NotFound
    ELSE LET size_bytes == Slice(data, pos + 4, pos + 8) IN
         IF Len(size_bytes) # 4 THEN NotFound
         ELSE LET chunk_size == UnpackLE32(size_bytes)
                  date_start == pos + 8
                  date_end == date_start + chunk_size
              IN  IF date_end > Len(data) THEN NotFound
                  ELSE Found(pos, Slice(data, date_start, date_end))

\* MetadataTimeChanger._find_idit_chunk: no check of the size field's length,
\* struct.unpack raises struct.error on fewer than four bytes
_find_idit_chunk(data) ==
    LET pos == Find(data, IDIT) IN
    IF pos = -1 THEN NotFound
    ELSE IF pos + 4 >= Len(data) THEN NotFound
    ELSE LET size_bytes == Slice(data, pos + 4, pos + 8) IN
         IF Len(size_bytes) # 4 THEN Raised
         ELSE LET chunk_size == UnpackLE32(size_bytes)
                  date_start == pos + 8
                  date_end == date_start + chunk_size
              IN  IF date_end > Len(data) THEN NotFound
                  ELSE Found(pos, Slice(data, date_start, date_end))

\* ------------------------------------------------------------------------
\* Calendar (datetime.date ordinals, proleptic Gregorian)
\* ------------------------------------------------------------------------
IsLeap(y) == (y % 4 = 0) /\ ((y % 100 # 0) \/ (y % 400 = 0))
DaysInMonth(y, m) ==
    IF m = 2 THEN (IF IsLeap(y) THEN 29 ELSE 28)
    ELSE IF m \in {4, 6, 9, 11} THEN 30 ELSE 31
\* days before January 1st of year y
DaysBeforeYear(y) ==
    LET p == y - 1 IN p * 365 + (p \div 4) - (p \div 100) + (p \div 400)
RECURSIVE DaysBeforeMonth(_, _)
DaysBeforeMonth(y, m) ==
    IF m = 1 THEN 0 ELSE DaysBeforeMonth(y, m - 1) + DaysInMonth(y, m - 1)
\* date(y, m, d).toordinal(): 0001-01-01 is day 1
ToOrdinal(y, m, d) == DaysBeforeYear(y) + DaysBeforeMonth(y, m) + d
\* date.max is 9999-12-31
MaxOrdinal == ToOrdinal(9999, 12, 31)

\* date.fromordinal(n)
YearOfOrdinal(n) ==
    LET guess == ((n - 1) \div 366) + 1
        RECURSIVE Up(_)
        Up(y) == IF DaysBeforeYear(y + 1) < n THEN Up(y + 1) ELSE y
    IN  Up(guess)
MonthOfOrdinal(n) ==
    LET y == YearOfOrdinal(n)
        r == n - DaysBeforeYear(y)
        RECURSIVE Up(_)
        Up(m) == IF DaysBeforeMonth(y, m) + DaysInMonth(y, m) < r
                 THEN Up(m + 1) ELSE m
    IN  Up(1)
DayOfOrdinal(n) ==
    LET y == YearOfOrdinal(n)
    IN  n - DaysBeforeYear(y) - DaysBeforeMonth(y, MonthOfOrdinal(n))
\* date.weekday(): Monday is 0
Weekday(n) == (n + 6) % 7

\* A datetime: day ordinal, second of the day, microseconds
DateTime(y, mo, d, h, mi, s, us) ==
    [ord |-> ToOrdinal(y, mo, d), sec |-> h * 3600 + mi * 60 + s, us |-> us]
\* A timedelta, normalised as Python does: 0 <= seconds < 86400, 0 <= us < 10^6
TimeDelta(days, seconds, us) == [days |-> days, seconds |-> seconds, us |-> us]

\* Python's None where a datetime is expected (no date has ordinal 0)
NoneVal == [ord |-> 0, sec |-> 0, us |-> 0]
\* the OverflowError of datetime arithmetic
Overflow == [ord |-> -1, sec |-> 0, us |-> 0]
\* datetime + timedelta; OverflowError outside years 1..9999
AddDelta(dt, td) ==
    LET us0 == dt.us + td.us
        carryS == us0 \div 1000000
        s0 == dt.sec + td.seconds + carryS
        carryD == s0 \div 86400
        o == dt.ord + td.days + carryD
    IN  IF o < 1 \/ o > MaxOrdinal THEN Overflow
        ELSE [ord |-> o, sec |-> s0 % 86400, us |-> us0 % 1000000]

\* ------------------------------------------------------------------------
\* Timestamp codec
\* ------------------------------------------------------------------------
\* locale "C" abbreviations, as strftime("%a") / strftime("%b") give them
DayAbbr == << <<77,111,110>>, <<84,117,101>>, <<87,101,100>>, <<84,104,117>>,
              <<70,114,105>>, <<83,97,116>>, <<83,117,110>> >>
MonthAbbr == << <<74,97,110>>, <<70,101,98>>, <<77,97,114>>, <<65,112,114>>,
                <<77,97,121>>, <<74,117,110>>, <<74,117,108>>, <<65,117,103>>,
                <<83,101,112>>, <<79,99,116>>, <<78,111,118>>, <<68,101,99>> >>

Digit(n) == 48 + n
TwoDigits(n) == << Digit((n \div 10) % 10), Digit(n % 10) >>
FourDigits(n) == << Digit((n \div 1000) % 10), Digit((n \div 100) % 10),
                    Digit((n \div 10) % 10), Digit(n % 10) >>
\* decimal digits of n > 0 without padding
RECURSIVE Decimal(_)
Decimal(n) == IF n < 10 THEN << Digit(n) >>
              ELSE Decimal(n \div 10) \o << Digit(n % 10) >>
\* strftime("%Y"): zero-padded to four digits where the C library pads,
\* unpadded for years below 1000 where it does not (glibc)
FormatYear(y, padYear) == IF padYear \/ y >= 1000 THEN FourDigits(y) ELSE Decimal(y)

\* variant: the hour on the 12-hour clock ("%I" for "%H")
Strftime_TwelveHour(dt, padYear) ==
    LET y == YearOfOrdinal(dt.ord)
        mo == MonthOfOrdinal(dt.ord)
        d == DayOfOrdinal(dt.ord)
        h == dt.sec \div 3600
    IN  DayAbbr[Weekday(dt.ord) + 1] \o <<SP>> \o MonthAbbr[mo] \o <<SP>>
        \o TwoDigits(d) \o <<SP>>
        \o TwoDigits(IF h % 12 = 0 THEN 12 ELSE h % 12) \o <<COLON>>
        \o TwoDigits((dt.sec \div 60) % 60) \o <<COLON>>
        \o TwoDigits(dt.sec % 60) \o <<SP>> \o FormatYear(y, padYear)

\* dt.strftime("%a %b %d %H:%M:%S %Y")
Strftime(dt, padYear) ==
    LET y == YearOfOrdinal(dt.ord)
        mo == MonthOfOrdinal(dt.ord)
        d == DayOfOrdinal(dt.ord)
    IN  DayAbbr[Weekday(dt.ord) + 1] \o <<SP>> \o MonthAbbr[mo] \o <<SP>>
        \o TwoDigits(d) \o <<SP>>
        \o TwoDigits(dt.sec \div 3600) \o <<COLON>>
        \o TwoDigits((dt.sec \div 60) % 60) \o <<COLON>>
        \o TwoDigits(dt.sec % 60) \o <<SP>> \o FormatYear(y, padYear)

\* variant: the text is not upper-cased
format_canon_date_NoUpper(dt, padYear) == Strftime(dt, padYear)

\* format_canon_date (all three copies): strftime(...).upper()
format_canon_date(dt, padYear) == Upper(Strftime(dt, padYear))

\* bytes.decode("ascii", errors="ignore")
DecodeAsciiIgnore(b) == SelectSeq(b, LAMBDA x : x < 128)

RECURSIVE LStrip(_)
LStrip(s) == IF s # <<>> /\ IsSpace(s[1]) THEN LStrip(Tail(s)) ELSE s
RECURSIVE RStrip(_)
RStrip(s) == IF s # <<>> /\ IsSpace(s[Len(s)]) THEN RStrip(Take(s, Len(s) - 1)) ELSE s
\* str.strip()
Strip(s) == RStrip(LStrip(s))
\* str.rstrip("\x00")
RECURSIVE RStripNul(_)
RStripNul(s) == IF s # <<>> /\ s[Len(s)] = NUL THEN RStripNul(Take(s, Len(s) - 1)) ELSE s
\* date_str.strip().rstrip("\x00").strip()
CleanDate(s) == Strip(RStripNul(Strip(s)))

\* the fields of s separated by runs of bytes satisfying Sep
RECURSIVE SplitOn(_, _, _)
SplitOn(s, cur, isWs) ==
    IF s = <<>> THEN << cur >>
    ELSE IF (isWs /\ IsSpace(s[1])) \/ (~isWs /\ s[1] = COLON)
         THEN << cur >> \o SplitOn(Tail(s), <<>>, isWs)
         ELSE SplitOn(Tail(s), Append(cur, s[1]), isWs)
\* fields between runs of whitespace (the format's " " is the regex \s+)
Fields(s) == SelectSeq(SplitOn(s, <<>>, TRUE), LAMBDA t : t # <<>>)
\* fields between single colons
ColonFields(s) == SplitOn(s, <<>>, FALSE)

\* variant: names are compared with their case
NameIndex_CaseSensitive(tok, table) ==
    IF \E i \in 1..Len(table) : table[i] = tok
    THEN CHOOSE i \in 1..Len(table) : table[i] = tok
    ELSE 0

\* index of a name in a table, compared case-insensitively; 0 when absent
NameIndex(tok, table) ==
    IF \E i \in 1..Len(table) : Upper(table[i]) = Upper(tok)
    THEN CHOOSE i \in 1..Len(table) : Upper(table[i]) = Upper(tok)
    ELSE 0

AllDigits(t) == \A i \in 1..Len(t) : IsDigit(t[i])
Num(t) == IF Len(t) = 1 THEN DigitVal(t[1])
          ELSE IF Len(t) = 2 THEN 10 * DigitVal(t[1]) + DigitVal(t[2])
          ELSE 1000 * DigitVal(t[1]) + 100 * DigitVal(t[2])
               + 10 * DigitVal(t[3]) + DigitVal(t[4])
\* %d : 3[0-1]|[1-2]\d|0[1-9]|[1-9]
MatchDay(t) == /\ Len(t) \in {1, 2} /\ AllDigits(t)
               /\ Num(t) >= 1 /\ Num(t) <= 31
\* %H : 2[0-3]|[0-1]\d|\d
MatchHour(t) == Len(t) \in {1, 2} /\ AllDigits(t) /\ Num(t) <= 23
\* %M : [0-5]\d|\d
MatchMinute(t) == Len(t) \in {1, 2} /\ AllDigits(t) /\ Num(t) <= 59
\* %S : 6[0-1]|[0-5]\d|\d
MatchSecond(t) == Len(t) \in {1, 2} /\ AllDigits(t) /\ Num(t) <= 61
\* %Y : \d\d\d\d
MatchYear(t) == Len(t) = 4 /\ AllDigits(t)

\* datetime.strptime(text, "%a %b %d %H:%M:%S %Y"); NoneVal stands for the
\* ValueError.  The weekday name is matched but not compared with the date.
Strptime(text) ==
    LET f == Fields(text) IN
    IF Len(f) # 5 \/ text = <<>> \/ IsSpace(text[1]) \/ IsSpace(text[Len(text)])
    THEN NoneVal
    ELSE LET hms == ColonFields(f[4]) IN
         IF \/ NameIndex(f[1], DayAbbr) = 0
            \/ NameIndex(f[2], MonthAbbr) = 0
            \/ ~MatchDay(f[3])
            \/ Len(hms) # 3
            \/ ~MatchYear(f[5])
         THEN NoneVal
         ELSE IF ~MatchHour(hms[1]) \/ ~MatchMinute(hms[2]) \/ ~MatchSecond(hms[3])
         THEN NoneVal
         ELSE LET y == Num(f[5])
                  mo == NameIndex(f[2], MonthAbbr)
                  d == Num(f[3])
              IN  IF y < 1 \/ d > DaysInMonth(y, mo) \/ Num(hms[3]) > 59
                  THEN NoneVal
                  ELSE DateTime(y, mo, d, Num(hms[1]), Num(hms[2]), Num(hms[3]), 0)

\* parse_canon_date (all three copies)
parse_canon_date(date_str) == Strptime(CleanDate(date_str))

\* variant: pads, but never truncates
PadOrTruncate_NoTruncate(new_date_bytes, original_size) ==
    IF Len(new_date_bytes) < original_size
    THEN new_date_bytes \o Nuls(original_size - Len(new_date_bytes))
    ELSE new_date_bytes

\* variant: truncates, but never pads
PadOrTruncate_NoPad(new_date_bytes, original_size) ==
    IF Len(new_date_bytes) > original_size
    THEN Take(new_date_bytes, original_size)
    ELSE new_date_bytes

\* variant: pads with spaces
PadOrTruncate_SpacePad(new_date_bytes, original_size) ==
    IF Len(new_date_bytes) < original_size
    THEN new_date_bytes \o [i \in 1..(original_size - Len(new_date_bytes)) |-> SP]
    ELSE IF Len(new_date_bytes) > original_size
    THEN Take(new_date_bytes, original_size)
    ELSE new_date_bytes

\* "Pad or truncate to match original size"
PadOrTruncate(new_date_bytes, original_size) ==
    IF Len(new_date_bytes) < original_size
    THEN new_date_bytes \o Nuls(original_size - Len(new_date_bytes))
    ELSE IF Len(new_date_bytes) > original_size
    THEN Take(new_date_bytes, original_size)
    ELSE new_date_bytes

\* variant: the payload is written over the size field (offset + 4)
SpliceSlice_AtSizeField(data, date_start, date_end, new_bytes) ==
    Take(data, date_start - 4) \o new_bytes \o Drop(data, date_end - 4)

\* data[date_start:date_end] = new_date_bytes
SpliceSlice(data, date_start, date_end, new_bytes) ==
    Take(data, date_start) \o new_bytes \o Drop(data, date_end)

\* ------------------------------------------------------------------------
\* Relative-duration parsers
\* ------------------------------------------------------------------------
PLUS == 43
MINUS == 45
UNDERSCORE == 95
IsLetter(b) == (b >= 65 /\ b <= 90) \/ (b >= 97 /\ b <= 122)
LowerByte(b) == IF b >= 65 /\ b <= 90 THEN b + 32 ELSE b
\* str.lower()
Lower(s) == [i \in 1..Len(s) |-> LowerByte(s[i])]
\* str.isdigit()
IsDigitStr(s) == s # <<>> /\ \A i \in 1..Len(s) : IsDigit(s[i])
\* int() of a string of decimal digits
RECURSIVE IntOf(_)
IntOf(s) == IF s = <<>> THEN 0
            ELSE 10 * IntOf(Take(s, Len(s) - 1)) + DigitVal(s[Len(s)])

\* what a parser gives back: a timedelta, or the exception it raised
Parsed(td) == [raise |-> "none", td |-> td]
Raises(exc) == [raise |-> exc, td |-> TimeDelta(0, 0, 0)]
NotParsed == [raise |-> "unset", td |-> TimeDelta(0, 0, 0)]

\* re.findall(r"(\d+)([a-zA-Z])", s): each maximal run of digits that a letter
\* follows, with that letter, from left to right
RECURSIVE FindAllPairs(_, _)
FindAllPairs(s, digits) ==
    IF s = <<>> THEN <<>>
    ELSE IF IsDigit(s[1]) THEN FindAllPairs(Tail(s), Append(digits, s[1]))
    ELSE IF digits # <<>> /\ IsLetter(s[1])
         THEN << [value_str |-> digits, unit |-> s[1]] >> \o FindAllPairs(Tail(s), <<>>)
         ELSE FindAllPairs(Tail(s), <<>>)

\* the units of parse_time_adjustment: y, m, w, d, h
\* variant: a letter outside the table is passed over
IsSupportedUnit_Any(unit) == TRUE
IsSupportedUnit(unit) == unit \in {121, 109, 119, 100, 104}
\* days a unit counts for (hours are counted apart)
UnitDays(unit) ==
    IF unit = 121 THEN 365 ELSE IF unit = 109 THEN 30
    ELSE IF unit = 119 THEN 7 ELSE IF unit = 100 THEN 1 ELSE 0
RECURSIVE TotalDays(_)
TotalDays(matches) ==
    IF matches = <<>> THEN 0
    ELSE IntOf(matches[1].value_str) * UnitDays(matches[1].unit) + TotalDays(Tail(matches))
\* the hours among the pairs: total_days += value / 24
RECURSIVE TotalHours(_)
TotalHours(matches) ==
    IF matches = <<>> THEN 0
    ELSE (IF matches[1].unit = 104 THEN IntOf(matches[1].value_str) ELSE 0)
         + TotalHours(Tail(matches))
\* timedelta(days=..., hours=...), normalised
DaysHours(days, hours) == TimeDelta(days + (hours \div 24), (hours % 24) * 3600, 0)
\* variant: the sign is dropped
SignedTotal_IgnoreSign(is_positive, days, hours) == DaysHours(days, hours)
\* timedelta(days=total_days if is_positive else -total_days)
SignedTotal(is_positive, days, hours) ==
    IF is_positive THEN DaysHours(days, hours) ELSE DaysHours(-days, -hours)

\* MetadataTimeChanger.parse_time_adjustment
parse_time_adjustment(time_string) ==
    LET stripped == Strip(time_string) IN
    IF stripped = <<>> \/ stripped[1] \notin {PLUS, MINUS}
    THEN Raises("TimeParsingError")
    ELSE LET is_positive == stripped[1] = PLUS
             rest == Tail(stripped)
         IN  IF IsDigitStr(rest) THEN Parsed(SignedTotal(is_positive, IntOf(rest), 0))
             ELSE LET matches == FindAllPairs(Lower(rest), <<>>) IN
                  IF matches = <<>> THEN Raises("TimeParsingError")
                  ELSE IF \E i \in 1..Len(matches) : ~IsSupportedUnit(matches[i].unit)
                  THEN Raises("TimeParsingError")
                  ELSE Parsed(SignedTotal(is_positive, TotalDays(matches),
                                          TotalHours(matches)))

\* int(s): surrounding whitespace, an optional sign, digits with single
\* underscores between them; ok is FALSE for the ValueError
IntLiteral(s) ==
    LET t == Strip(s)
        signed == t # <<>> /\ t[1] \in {PLUS, MINUS}
        body == IF signed THEN Tail(t) ELSE t
        valid == /\ body # <<>>
                 /\ IsDigit(body[1]) /\ IsDigit(body[Len(body)])
                 /\ \A i \in 1..Len(body) : IsDigit(body[i]) \/ body[i] = UNDERSCORE
                 /\ \A i \in 1..(Len(body) - 1) :
                        ~(body[i] = UNDERSCORE /\ body[i + 1] = UNDERSCORE)
        n == IntOf(SelectSeq(body, IsDigit))
    IN  [ok |-> valid, val |-> IF ~valid THEN 0 ELSE IF signed /\ t[1] = MINUS THEN -n ELSE n]

\* avi_riff_date_fixer.main, "Parse time adjustment (simple version)"
main_time_delta(time_str) ==
    LET signed == time_str # <<>> /\ time_str[1] \in {PLUS, MINUS}
        multiplier == IF signed /\ time_str[1] = MINUS THEN -1 ELSE 1
        rest == IF signed THEN Tail(time_str) ELSE time_str
        last == IF rest = <<>> THEN 0 ELSE rest[Len(rest)]
        front == IntLiteral(Take(rest, Len(rest) - 1))
        whole == IntLiteral(rest)
    IN  IF last = 100
        THEN (IF front.ok THEN Parsed(DaysHours(front.val * multiplier, 0))
              ELSE Raises("ValueError"))
        ELSE IF last = 104
        THEN (IF front.ok THEN Parsed(DaysHours(0, front.val * multiplier))
              ELSE Raises("ValueError"))
        ELSE IF last = 109
        THEN (IF front.ok
              THEN LET minutes == front.val * multiplier
                   IN  Parsed(TimeDelta(minutes \div 1440, (minutes % 1440) * 60, 0))
              ELSE Raises("ValueError"))
        ELSE IF whole.ok THEN Parsed(DaysHours(whole.val * multiplier, 0))
        ELSE Raises("ValueError")

\* ------------------------------------------------------------------------
\* Sample inputs
\* ------------------------------------------------------------------------
\* 'MON AUG 28 14:14:28 2006' (24 bytes)
TextCanonical == <<77, 79, 78, 32, 65, 85, 71, 32, 50, 56, 32, 49, 52, 58, 49, 52, 58, 50, 56, 32, 50, 48, 48, 54>>
\* 'Mon Aug 28 14:14:28 2006\x00\x00' (26 bytes)
PayloadMixedCase == <<77, 111, 110, 32, 65, 117, 103, 32, 50, 56, 32, 49, 52, 58, 49, 52, 58, 50, 56, 32, 50, 48, 48, 54, 0, 0>>
\* 'TUE AUG 28 14:14:28 2006\x00\x00' (26 bytes)
PayloadWrongWeekday == <<84, 85, 69, 32, 65, 85, 71, 32, 50, 56, 32, 49, 52, 58, 49, 52, 58, 50, 56, 32, 50, 48, 48, 54, 0, 0>>
\* 'TUE AUG 1 1:01:01 2006' (22 bytes)
PayloadShortFields == <<84, 85, 69, 32, 65, 85, 71, 32, 49, 32, 49, 58, 48, 49, 58, 48, 49, 32, 50, 48, 48, 54>>
\* 'invalid date format\x00' (20 bytes)
PayloadInvalid == <<105, 110, 118, 97, 108, 105, 100, 32, 100, 97, 116, 101, 32, 102, 111, 114, 109, 97, 116, 0>>
\* 'FRI DEC 31 23:59:59 9999\x00\x00' (26 bytes)
PayloadMaxDate == <<70, 82, 73, 32, 68, 69, 67, 32, 51, 49, 32, 50, 51, 58, 53, 57, 58, 53, 57, 32, 57, 57, 57, 57, 0, 0>>
\* 'WED AUG 28 14:14:28 0999\x00\x00' (26 bytes)
PayloadYear999 == <<87, 69, 68, 32, 65, 85, 71, 32, 50, 56, 32, 49, 52, 58, 49, 52, 58, 50, 56, 32, 48, 57, 57, 57, 0, 0>>
\* 'MON AUG 28 14:14:28 2006 \x00' (26 bytes)
PayloadSpaceNul == <<77, 79, 78, 32, 65, 85, 71, 32, 50, 56, 32, 49, 52, 58, 49, 52, 58, 50, 56, 32, 50, 48, 48, 54, 32, 0>>
\* 'dummy data'
Dummy == <<100, 117, 109, 109, 121, 32, 100, 97, 116, 97>>

\* bytes before and after the chunk: 'RL', 'JK'
FilePrefix == <<82, 76>>
FileSuffix == <<74, 75>>
\* a container holding one IDIT chunk with the given size field and payload
MkFile(size, payload) == FilePrefix \o IDIT \o PackLE32(size) \o payload \o FileSuffix

PayloadSamples ==
    { TextCanonical \o Nuls(k) : k \in 0..MaxPad }
    \cup { PayloadMixedCase, PayloadWrongWeekday, PayloadShortFields, PayloadInvalid,
           PayloadMaxDate, PayloadYear999, PayloadSpaceNul }

\* contents of the target file before the operation
ContentSamples ==
    { MkFile(Len(p), p) : p \in PayloadSamples }
    \cup { FilePrefix \o Dummy,                                 \* no IDIT tag
           FilePrefix \o IDIT \o <<26, 0>>,                     \* tag, 2 bytes left
           MkFile(200, TextCanonical \o Nuls(2)) }              \* window past the end

\* buffers in which the tag occurs twice: the first occurrence declares a
\* window past the end, or is followed by bytes that are no size field, and a
\* whole chunk follows; or two whole chunks follow each other
TwoTagSamples ==
    { IDIT \o PackLE32(200) \o MkFile(24, TextCanonical),
      IDIT \o MkFile(24, TextCanonical),
      MkFile(24, TextCanonical) \o MkFile(24, PayloadMaxDate) }

\* buffers handed to the locators on their own: every prefix of a sample file
BufferSamples ==
    LET whole == MkFile(26, TextCanonical \o Nuls(2))
        far == MkFile(65536 + 26, TextCanonical \o Nuls(2))
    IN  { Take(whole, n) : n \in 0..Len(whole) } \cup { Take(far, n) : n \in 10..14 }
        \cup TwoTagSamples

\* timedelta values: zero, +MaxDeltaDays days, and -1 hour
DeltaSamples ==
    { TimeDelta(0, 0, 0), TimeDelta(MaxDeltaDays, 0, 0), TimeDelta(-1, 82800, 0) }

\* the timestamp of test_metadata_time_changer_integration_with_riff_preserving
TimestampSamples == { DateTime(2006, 8, 30, 14, 14, 28, 0) }

\* the file's modification time, as datetime.fromtimestamp(st_mtime) gives it
MtimeSamples == { DateTime(2020, 1, 1, 12, 0, 0, 500000) }

\* fields read_video_metadata_timestamps asks MediaInfo for
timestamp_fields == { "recorded_date", "tagged_date", "encoded_date", "mastered_date",
                      "file_last_modification_date", "creation_time", "date" }
AllNone == [f \in timestamp_fields |-> NoneVal]
NoFields == [f \in {} |-> NoneVal]
\* what MediaInfo yields for the file: .raise when MediaInfo.parse raises,
\* .ts the dictionary of timestamps (empty without a General track)
MetaSamples ==
    { [raise |-> FALSE, ts |-> NoFields],
      [raise |-> TRUE, ts |-> NoFields],
      [raise |-> FALSE, ts |-> AllNone],
      [raise |-> FALSE, ts |-> [AllNone EXCEPT !["recorded_date"] = DateTime(2006, 8, 28, 14, 14, 28, 0)]],
      [raise |-> FALSE, ts |-> [AllNone EXCEPT !["recorded_date"] = DateTime(2006, 8, 28, 14, 14, 28, 0),
                                               !["creation_time"] = DateTime(2007, 1, 1, 0, 0, 0, 0)]],
      [raise |-> FALSE, ts |-> [AllNone EXCEPT !["file_last_modification_date"] = DateTime(2006, 8, 28, 14, 14, 28, 0)]],
      [raise |-> FALSE, ts |-> [AllNone EXCEPT !["recorded_date"] = DateTime(9999, 12, 31, 23, 59, 59, 0)]] }


\* timestamps handed to format_canon_date: first and last days of each month
\* of several years, hours with one and two digits
DateSamples ==
    { DateTime(y, mo, d, h, mi, sc, 0) :
        y \in {999, 1000, 2000, 2006, 9999}, mo \in 1..12, d \in {1, 9, 28},
        h \in {0, 9, 23}, mi \in {0, 59}, sc \in {0, 59} }
    \cup { DateTime(y, mo, DaysInMonth(y, mo), 13, 7, 5, 0) :
             y \in {999, 1000, 2000, 2006, 9999}, mo \in 1..12 }

\* tokens of the texts handed to parse_canon_date, per field: the canonical
\* token first, then tokens that differ from it
WeekdayTokens == { <<77, 79, 78>>, <<84, 85, 69>>, <<77, 111, 110>>, <<88, 89, 90>> }
MonthTokens == { <<65, 85, 71>>, <<65, 85, 88>> }
DayTokens == { <<50, 56>>, <<49>>, <<51, 50>>, <<50, 88>> }
HourTokens == { <<49, 52>>, <<52>>, <<50, 52>> }
MinuteTokens == { <<49, 52>>, <<52>> }
SecondTokens == { <<50, 56>>, <<56>>, <<54, 48>> }
YearTokens == { <<50, 48, 48, 54>>, <<50, 48, 54>>, <<48, 48, 48, 48>> }
\* "<weekday> <month> <day> <hour>:<minute>:<second> <year>"
JoinDate(wd, mon, d, h, mi, sc, y) ==
    wd \o <<SP>> \o mon \o <<SP>> \o d \o <<SP>> \o h \o <<COLON>> \o mi
       \o <<COLON>> \o sc \o <<SP>> \o y
\* date_str arguments of parse_canon_date: after decode("ascii", errors="ignore")
DateStrSamples ==
    { JoinDate(wd, mon, d, h, mi, sc, y) :
        wd \in WeekdayTokens, mon \in MonthTokens, d \in DayTokens, h \in HourTokens,
        mi \in MinuteTokens, sc \in SecondTokens, y \in YearTokens }
    \cup { TextCanonical \o u : u \in { <<NUL, SP, NUL>>, <<SP, NUL, SP>>, <<NUL, 10>>,
                                         <<NUL, NUL, 9>> } }
    \cup { <<>>,
            <<105, 110, 118, 97, 108, 105, 100, 32, 100, 97, 116, 101, 32, 102, 111, 114, 109, 97, 116>> \o <<NUL>>,
            <<77, 79, 78, 32, 65, 85, 71, 32, 50, 56, 32, 49, 52, 58, 49, 52, 58, 50, 56, 32, 50, 48, 48, 54>> \o <<NUL, NUL>>,
            <<77, 79, 78, 32, 65, 85, 71, 32, 50, 56, 32, 49, 52, 58, 49, 52, 58, 50, 56, 32, 50, 48, 48, 54>> \o <<10, NUL>>,
            <<77, 79, 78, 32, 32, 65, 85, 71, 32, 50, 56, 32, 49, 52, 58, 49, 52, 58, 50, 56, 32, 50, 48, 48, 54>>,
            <<77, 79, 78, 32, 65, 85, 71, 32, 50, 56, 32, 49, 52, 58, 49, 52, 58, 50, 56>>,
            <<77, 79, 78, 32, 65, 85, 71, 32, 50, 56, 32, 49, 52, 58, 49, 52, 32, 50, 48, 48, 54>>,
            <<77, 79, 78, 32, 65, 85, 71, 32, 50, 56, 32, 49, 52, 58, 32, 49, 52, 58, 50, 56, 32, 50, 48, 48, 54>>,
            <<77, 79, 78, 32, 65, 85, 71, 32, 50, 56, 32, 49, 52, 58, 49, 52, 58, 50, 56, 32, 50, 48, 48, 54, 32, 88>>,
            <<65, 85, 71, 32, 50, 56, 32, 49, 52, 58, 49, 52, 58, 50, 56, 32, 50, 48, 48, 54>>,
            <<77, 79, 78, 68, 65, 89, 32, 65, 85, 71, 32, 50, 56, 32, 49, 52, 58, 49, 52, 58, 50, 56, 32, 50, 48, 48, 54>>,
            <<77, 79, 78, 32, 65, 85, 71, 32, 50, 56, 32, 49, 52, 58, 49, 52, 58, 50, 56, 32, 50, 48, 48, 54, 48>> }

\* duration expressions: a sign (or none), then a bare integer or pairs of a
\* value and a unit letter; 'x' is no unit, 'D' is a unit in upper case
UnitSamples == { 121, 109, 119, 100, 104, 68, 120 }
SignSamples == { <<PLUS>>, <<MINUS>>, <<>> }
BareExpr(sign, n) == [kind |-> "bare", sign |-> sign, items |-> << [value |-> n, unit |-> 0] >>]
PairsExpr(sign, items) == [kind |-> "pairs", sign |-> sign, items |-> items]
RawExpr == [kind |-> "raw", sign |-> <<>>, items |-> <<>>]
ExprSamples ==
    { BareExpr(sg, n) : sg \in SignSamples, n \in (0..MaxValue) \cup {12} }
    \cup UNION { { PairsExpr(sg, items) :
                      sg \in SignSamples,
                      items \in [1..k -> [value : 1..MaxValue, unit : UnitSamples]] }
                 : k \in 1..MaxPairs }
    \cup { PairsExpr(sg, << [value |-> v, unit |-> 104] >>) :
             sg \in SignSamples, v \in {0, 25} }
    \cup { PairsExpr(<<PLUS>>, << [value |-> 1, unit |-> 121], [value |-> 2, unit |-> 109],
                                   [value |-> 3, unit |-> 100] >>) }
\* the text of an expression: "-2w 1d"
RECURSIVE RenderItems(_)
RenderItems(items) ==
    IF items = <<>> THEN <<>>
    ELSE Decimal(items[1].value) \o << items[1].unit >>
         \o (IF Len(items) > 1 THEN <<SP>> ELSE <<>>) \o RenderItems(Tail(items))
Render(e) ==
    IF e.kind = "bare" THEN e.sign \o Decimal(e.items[1].value)
    ELSE e.sign \o RenderItems(e.items)
\* sys.argv[2] of avi_riff_date_fixer.main
ArgvSamples == { <<43, 49, 100>>, <<45, 50, 104>>, <<48>>, <<43, 49, 121, 32, 50, 109, 32, 51, 100>> }
\* time_adjustment arguments of metadata_time_changer.main
AdjustmentSamples == { <<43, 49, 100>>, <<49, 100>> }
\* other texts given as the time adjustment
RawTimeStrings ==
    { <<>>, <<PLUS>>, <<MINUS>>, <<32, 43, 51, 100, 32>>, <<43, 97, 98, 99>>, <<43, 32, 53>>, <<43, 53, 32, 100>>,
      <<43, 45, 53>>, <<43, 49, 46, 53, 100>>, <<43, 49, 100, 32, 106, 117, 110, 107>>, <<43, 49, 100, 50, 119>>, <<43, 49, 95, 48, 100>>,
      <<97, 98, 99>>, <<43, 32>>, <<43, 100>>, <<43, 49, 100, 32, 53>> }

\* ------------------------------------------------------------------------
\* State
\* ------------------------------------------------------------------------
VARIABLES
    entry,          \* the operation called
    dry_run,        \* MetadataTimeChanger.dry_run
    padYear,        \* whether the platform's strftime("%Y") pads to four digits
    time_delta,     \* the parsed duration (time_delta / self.time_delta)
    meta,           \* what MediaInfo reports for the file
    orig,           \* the target file as it was before the operation
    orig_mtime,     \* its modification time before the operation
    disk0,          \* the directory as it was before the operation
    fs,             \* file system: path -> file
    mt,             \* modification time of each path
    pc,             \* position of the operation
    timestamp,      \* argument of write_avi_metadata_safe_inplace_modify
    data,           \* the bytearray buffer
    loc,            \* (idit_pos, date_data) of the patcher's locator
    current_date,   \* parse_canon_date(current_date_str)
    new_date,       \* the timestamp that is encoded
    new_date_str,   \* format_canon_date(new_date)
    new_date_bytes, \* the payload written into the buffer
    ret,            \* return value of the patcher
    errors,         \* MetadataTimeChanger.errors
    result,         \* the dictionary process_single_file returns
    locs,           \* results of the three locators on a bare buffer
    hist,           \* history of the operation (what was done, what raised)
    dt,             \* argument of format_canon_date
    date_str,       \* argument of parse_canon_date
    encoded,        \* what format_canon_date returned
    decoded,        \* what parse_canon_date returned
    expr,           \* the duration expression the text was written from
    time_string,    \* the time adjustment given on the command line
    strict,         \* what parse_time_adjustment made of it
    lenient,        \* what avi_riff_date_fixer.main made of it
    exit_status,    \* the status main exits with
    media_files,    \* what find_media_files returned, in the order of the loop
    file_index,     \* how many files the loop of main has taken
    invoked,        \* the files process_single_file was called on, in order
    results,        \* the result dictionaries the loop has seen
    reported,       \* the errors listed by the end-of-run report
    procs,          \* two patch operations running side by side
    disk,           \* the directory they run in: the file at each path
    destination0,   \* the destination tree before organize_files
    destination,    \* the destination tree: date folder -> files (name, content)
    discovered_media_files,     \* what find_media_files returned
    current_index,              \* how many of them the loop has taken
    organization_statistics,    \* the statistics dictionary
    processed_file_hashes,      \* hashes of the files copied in this run
    files_organized_by_date,    \* date folder -> the paths copied into it
    file_results,               \* what happened to each file taken so far
    unique_filename             \* what generate_unique_filename returned

inputs == << entry, dry_run, padYear, time_delta, meta, orig, orig_mtime, disk0,
            destination0 >>
locals == << data, loc, current_date, new_date, new_date_str, new_date_bytes >>
\* state of the codec called on its own
codecVars == << dt, date_str, encoded, decoded >>
\* state of the entry points other than the patchers
\* state of the duration parsers called on their own
parserVars == << expr, time_string, strict, lenient >>
\* state of the loop of metadata_time_changer.main
batchVars == << media_files, file_index, invoked, results, reported >>
\* state of two patch operations running in parallel
parVars == << procs, disk >>
\* state of ImageVideoOrganizer
organizerVars == << destination, discovered_media_files, current_index,
                   organization_statistics, processed_file_hashes,
                   files_organized_by_date, file_results, unique_filename >>
others == << codecVars, parserVars, exit_status, batchVars, parVars, organizerVars >>
\* state of the patchers and of process_single_file
patchVars == << locals, fs, mt, timestamp, ret, errors, result, locs, hist >>
vars == << entry, dry_run, padYear, time_delta, meta, orig, orig_mtime, disk0, fs, mt, pc,
           timestamp,
           data, loc, current_date, new_date, new_date_str, new_date_bytes,
           ret, errors, result, locs, hist, dt, date_str, encoded, decoded,
           expr, time_string, strict, lenient, exit_status,
           media_files, file_index, invoked, results, reported, procs, disk,
           destination0, destination, discovered_media_files, current_index,
           organization_statistics, processed_file_hashes, files_organized_by_date,
           file_results, unique_filename >>

\* file_path and file_path.with_suffix(".backup" + file_path.suffix)
FilePath == "video.avi"
BackupPath == "video.backup.avi"
Paths == { FilePath, BackupPath }

NoFile == [exists |-> FALSE, bytes |-> <<>>]
File(b) == [exists |-> TRUE, bytes |-> b]
\* the modification time of a file written just now
NowTime == [ord |-> -2, sec |-> 0, us |-> 0]

\* avi_riff_date_fixer.main, which calls fix_avi_date_inplace
IsMain == entry = "main"
IsFixer == entry = "fix_avi_date_inplace" \/ IsMain
IsDirect == entry = "write_avi_metadata_safe_inplace_modify"
\* metadata_time_changer.main, which calls process_single_file on every file
IsLoop == entry = "changer_main"
IsSingle == entry = "process_single_file"
IsBatch == IsSingle \/ IsLoop
IsLocate == entry = "find_idit_chunk"
\* two runs of one patcher, in two threads or two processes
ParFixer == entry = "parallel fix_avi_date_inplace"
ParChanger == entry = "parallel write_avi_metadata_safe_inplace_modify"
IsParallel == ParFixer \/ ParChanger
IsFfmpeg == entry = "write_video_metadata_with_ffmpeg"
IsOrganize == entry = "organize_files"
IsGenerate == entry = "generate_unique_filename"
IsFormat == entry = "format_canon_date"
IsParse == entry = "parse_canon_date"
IsAdjust == entry = "parse_time_adjustment"
\* the patcher is MetadataTimeChanger's (it records errors in self.errors)
IsChanger == IsDirect \/ IsBatch

\* prefixes a failed write can leave behind: nothing, or the first half
PartialLens(content) == { 0, Len(content) \div 2 }

\* the process has not exited
NotExited == -1
NoResult == [processed |-> FALSE, metadata_updated |-> FALSE, filesystem_updated |-> FALSE]
NoHist == [backupCreated |-> FALSE, writes |-> 0, writeDone |-> FALSE, faults |-> 0,
           unlinkFailed |-> FALSE, restoreFailed |-> FALSE]

\* media files: a file with a chunk, without one, with an undecodable
\* payload, and a file that is gone when it is processed
MediaSamples ==
    { [file |-> File(MkFile(24, TextCanonical)), mtime |-> DateTime(2020, 1, 1, 12, 0, 0, 0),
        meta |-> [raise |-> FALSE, ts |-> AllNone]],
      [file |-> File(FilePrefix \o Dummy), mtime |-> DateTime(2020, 1, 1, 12, 0, 0, 0),
        meta |-> [raise |-> TRUE, ts |-> NoFields]],
      [file |-> File(MkFile(Len(PayloadInvalid), PayloadInvalid)),
        mtime |-> DateTime(2020, 1, 1, 12, 0, 0, 0),
        meta |-> [raise |-> FALSE, ts |-> AllNone]],
      [file |-> NoFile, mtime |-> NoneVal, meta |-> [raise |-> FALSE, ts |-> NoFields]] }

\* ------------------------------------------------------------------------
\* Two patch operations side by side
\* ------------------------------------------------------------------------
\* a file name as its pieces between the dots: clip.backup.avi
\* PurePath.suffix: the last piece, if the name has more than one
Suffix(name) == IF Len(name) >= 2 THEN << name[Len(name)] >> ELSE <<>>
\* PurePath.with_suffix: the last suffix is replaced, or the new one appended
with_suffix(name, suffix) ==
    (IF Len(name) >= 2 THEN SubSeq(name, 1, Len(name) - 1) ELSE name) \o suffix
\* file_path.with_suffix(".backup" + file_path.suffix) in the fixer,
\* file_path.with_suffix(".backup.avi") in MetadataTimeChanger
backup_path(fixer, file_path) ==
    IF fixer THEN with_suffix(file_path, << "backup" >> \o Suffix(file_path))
    ELSE with_suffix(file_path, << "backup", "avi" >>)

\* a video that is no AVI file, and the paths write_video_metadata_with_ffmpeg
\* derives from it: file_path.with_suffix(f".tmp{file_path.suffix}") and
\* file_path.with_suffix(f".backup{file_path.suffix}")
VideoPath == << "video", "mp4" >>
temp_output == with_suffix(VideoPath, << "tmp" >> \o Suffix(VideoPath))
backup_file == with_suffix(VideoPath, << "backup" >> \o Suffix(VideoPath))
VideoContent == << 0, 0, 0, 24, 102, 116, 121, 112 >>
\* timestamp.strftime("%Y-%m-%dT%H:%M:%S")
formatted_timestamp(t) ==
    FourDigits(YearOfOrdinal(t.ord)) \o <<45>> \o TwoDigits(MonthOfOrdinal(t.ord))
    \o <<45>> \o TwoDigits(DayOfOrdinal(t.ord)) \o <<84>>
    \o TwoDigits(t.sec \div 3600) \o <<COLON>> \o TwoDigits((t.sec \div 60) % 60)
    \o <<COLON>> \o TwoDigits(t.sec % 60)
\* what "ffmpeg -c copy -map_metadata 0 -metadata creation_time=..." writes:
\* the streams of the input with the new dates
FfmpegOutput(bytes, stamp) == bytes \o formatted_timestamp(stamp)

\* AVI files of one directory (on a file system that tells AVI from avi)
PathSamples ==
    << << "clip", "avi" >>, << "clip", "AVI" >>, << "clip", "backup", "avi" >>,
       << "other", "avi" >> >>
\* two distinct targets
TargetPairs ==
    { << PathSamples[i], PathSamples[j] >> : i \in 1..Len(PathSamples), j \in 1..Len(PathSamples) }
    \ { << PathSamples[i], PathSamples[i] >> : i \in 1..Len(PathSamples) }
\* every path an operation can name
ParPaths ==
    { PathSamples[i] : i \in 1..Len(PathSamples) }
    \cup { backup_path(f, PathSamples[i]) : f \in BOOLEAN, i \in 1..Len(PathSamples) }
    \cup { VideoPath, temp_output, backup_file }
EmptyDisk == [p \in ParPaths |-> NoFile]
\* directories write_video_metadata_with_ffmpeg runs in: the video, and
\* possibly files already at the temporary and the backup path
VideoDirs ==
    { [p \in ParPaths |-> IF p = VideoPath THEN File(VideoContent)
                          ELSE IF p = temp_output /\ t THEN File(Dummy)
                          ELSE IF p = backup_file /\ b THEN File(FilePrefix)
                          ELSE NoFile] : t \in BOOLEAN, b \in BOOLEAN }
\* contents of the targets: two files with a chunk, one without a tag, one
\* whose tag is followed by two bytes, one with an undecodable payload
ParContents ==
    { MkFile(24, TextCanonical),
      MkFile(24, format_canon_date(DateTime(2000, 1, 1, 0, 0, 0, 0), TRUE)),
      FilePrefix \o Dummy,
      FilePrefix \o IDIT \o <<26, 0>>,
      MkFile(Len(PayloadInvalid), PayloadInvalid) }

\* an operation about to create its backup, on a file holding the bytes
\* .original; .touched are the paths it has created, overwritten or deleted,
\* .removed those it has deleted
StartOf(file_path, bytes) ==
    [file_path |-> file_path, original |-> bytes, pc |-> "backup", data |-> <<>>,
     ret |-> "running", touched |-> {}, removed |-> {}]

\* from "Find IDIT chunk" to "Replace the date data": what the patcher makes
\* of the buffer it read
PatchBuffer(fixer, buf) ==
    LET found == IF fixer THEN find_idit_chunk(buf) ELSE _find_idit_chunk(buf)
        current == parse_canon_date(DecodeAsciiIgnore(found.data))
        new == IF fixer THEN AddDelta(current, time_delta) ELSE timestamp
        original_size == Len(found.data)
        date_start == found.pos + 8
    IN  IF found.kind = "none" THEN [kind |-> "none", data |-> buf]
        ELSE IF found.kind = "raise" THEN [kind |-> "raise", data |-> buf]
        ELSE IF current = NoneVal THEN [kind |-> "unparsable", data |-> buf]
        ELSE IF new = Overflow THEN [kind |-> "raise", data |-> buf]
        ELSE [kind |-> "ok",
              data |-> SpliceSlice(buf, date_start, date_start + original_size,
                                   PadOrTruncate(format_canon_date(new, padYear),
                                                 original_size))]

ProcIds == {1, 2}
BackupOf(i) == backup_path(ParFixer, procs[i].file_path)
\* operation i goes to the state q, the other operation stays
Goes(i, q) == procs' = [procs EXCEPT ![i] = q]
Touch(i, path) == [procs[i] EXCEPT !.touched = @ \cup {path}]
Unlinked(i, path) == [Touch(i, path) EXCEPT !.removed = @ \cup {path}]
\* the operation returns v
Returns(q, v) == [q EXCEPT !.pc = "done", !.ret = v]

\* ------------------------------------------------------------------------
\* ImageVideoOrganizer
\* ------------------------------------------------------------------------
\* "if iteration_counter > 999: raise ValueError"
SafetyLimit == 999
\* most source files find_media_files discovers
MaxSources == 3

\* A file name is its stem followed by the counters appended to it: <<"a">>
\* is a.jpg, <<"a", 2>> is a_002.jpg, <<"a", 2, 3>> is a_002_003.jpg.
\* variant: the first candidate carries a counter too
_create_candidate_filename_Counted(original, counter) == original \o << counter >>

\* _create_candidate_filename: original for counter 1, else
\* f"{base_name}_{counter:03d}{extension}"
_create_candidate_filename(original, counter) ==
    IF counter = 1 THEN original ELSE original \o << counter >>

\* a directory is the set of its files, each a name and a content; content 0
\* is what a copy that failed part-way leaves
Exists(directory, name) == \E f \in directory : f.name = name
ContentAt(directory, name) == (CHOOSE f \in directory : f.name = name).content
\* _is_same_file_content: the hashes of the two files are equal
_is_same_file_content(directory, name, content) == ContentAt(directory, name) = content

NameFound(name) == [kind |-> "name", name |-> name]
NoneFound == [kind |-> "None", name |-> <<>>]
ValueError == [kind |-> "ValueError", name |-> <<>>]
NotCalled == [kind |-> "unset", name |-> <<>>]

\* variant: the original name is returned whether or not it is taken
generate_unique_filename_Original(destination_directory, original_filename, content) ==
    NameFound(original_filename)

\* the "while True" loop of generate_unique_filename: the counters run from 1
\* to the safety limit; the loop is left at the first counter whose candidate
\* does not exist (the candidate is returned) or exists with the content of
\* the source (None is returned); when there is none, ValueError is raised
generate_unique_filename(destination_directory, original_filename, content) ==
    LET candidate_filename(iteration_counter) ==
            _create_candidate_filename(original_filename, iteration_counter)
        Leaves(iteration_counter) ==
            \/ ~Exists(destination_directory, candidate_filename(iteration_counter))
            \/ _is_same_file_content(destination_directory,
                                     candidate_filename(iteration_counter), content)
        \* a candidate is passed only when it exists: the loop leaves no later
        \* than one counter after the number of files in the directory
        last == IF Cardinality(destination_directory) < SafetyLimit
                THEN Cardinality(destination_directory) + 1 ELSE SafetyLimit
        leaving == { k \in 1..last : Leaves(k) }
        first == CHOOSE k \in leaving : \A m \in leaving : k <= m
    IN  IF leaving = {} THEN ValueError
        ELSE IF ~Exists(destination_directory, candidate_filename(first))
        THEN NameFound(candidate_filename(first))
        ELSE NoneFound

\* variant: no file is taken for a duplicate of a file copied before
is_duplicate_Never(content, existing_hashes) == FALSE

\* is_duplicate: calculate_file_hash(file_path) in existing_hashes
is_duplicate(content, existing_hashes) == content \in existing_hashes

\* date folders (format_date_folder of the creation date)
Folders == { "2006_08_28", "2020_01_01" }
EmptyTree == [d \in Folders |-> {}]
\* a source file: its name, its content, its date folder, and whether it
\* lies inside the destination tree
Source(name, content, folder, inside) ==
    [name |-> name, content |-> content, folder |-> folder, in_destination |-> inside]
SourceSamples ==
    { Source(<<"a">>, c, d, FALSE) : c \in {1, 2}, d \in Folders }
    \cup { Source(<<"a", 2>>, c, "2006_08_28", FALSE) : c \in {1, 2} }
    \cup { Source(<<"a">>, 1, "2006_08_28", TRUE) }
\* destination trees before the run
TreeSamples ==
    { EmptyTree,
      [EmptyTree EXCEPT !["2006_08_28"] = { [name |-> <<"a">>, content |-> 1] }],
      [EmptyTree EXCEPT !["2006_08_28"] = { [name |-> <<"a">>, content |-> 2] }],
      [EmptyTree EXCEPT !["2006_08_28"] = { [name |-> <<"a">>, content |-> 2],
                                            [name |-> <<"a", 2>>, content |-> 3] }] }
\* directories for generate_unique_filename called on its own: the candidates
\* 1..n of a.jpg (but those in free) are taken, the candidate same, if any,
\* by a file with the content of the source
Taken(n, free, same) ==
    { [name |-> _create_candidate_filename(<<"a">>, k),
       content |-> IF k = same THEN 1 ELSE 2] : k \in (1..n) \ free }
DirectorySamples ==
    { Taken(n, {}, 0) : n \in { 0, 1, 2, SafetyLimit - 1, SafetyLimit } }
    \cup { Taken(1, {}, 1), Taken(3, {}, 2), Taken(3, {2}, 3), Taken(3, {1}, 2),
           Taken(SafetyLimit, {}, SafetyLimit), Taken(SafetyLimit, {}, 500),
           Taken(SafetyLimit, {500}, 700) }
NoStatistics ==
    [total_files |-> 0, processed |-> 0, duplicates_skipped |-> 0,
     conflicts_resolved |-> 0, errors |-> 0, date_folders_created |-> 0,
     files_by_date |-> [d \in Folders |-> 0]]

\* self.errors.append(msg) for each msg; the fixer only prints
Record(msgs) == IF IsChanger THEN errors \o msgs ELSE errors

Init ==
    /\ entry \in { "fix_avi_date_inplace", "write_avi_metadata_safe_inplace_modify",
                   "process_single_file", "find_idit_chunk",
                   "format_canon_date", "parse_canon_date", "parse_time_adjustment",
                   "main", "changer_main", "parallel fix_avi_date_inplace",
                   "parallel write_avi_metadata_safe_inplace_modify",
                   "write_video_metadata_with_ffmpeg", "organize_files",
                   "generate_unique_filename" }
    /\ padYear \in BOOLEAN
    /\ dry_run \in (IF IsChanger \/ IsFfmpeg THEN BOOLEAN ELSE {FALSE})
    /\ time_delta \in (IF (IsFixer /\ ~IsMain) \/ IsSingle THEN DeltaSamples
                       ELSE IF ParFixer THEN {TimeDelta(1, 0, 0)}
                       ELSE {TimeDelta(0, 0, 0)})
    /\ orig \in (IF ~(IsFixer \/ IsChanger) \/ IsLoop THEN {NoFile}
                 ELSE {NoFile} \cup { File(c) : c \in ContentSamples })
    /\ meta \in (IF ~IsSingle THEN {[raise |-> FALSE, ts |-> NoFields]}
                 ELSE IF orig = NoFile THEN { m \in MetaSamples : m.ts = NoFields }
                 ELSE MetaSamples)
    /\ timestamp \in (IF IsDirect \/ ParChanger \/ IsFfmpeg THEN TimestampSamples
                      ELSE {NoneVal})
    /\ data \in (IF IsLocate THEN BufferSamples \cup ContentSamples ELSE {<<>>})
    /\ ((IsLocate \/ IsParse \/ IsAdjust \/ IsParallel) => padYear /\ ~dry_run)
    /\ ((IsFfmpeg \/ IsOrganize \/ IsGenerate) => padYear)
    /\ (IsLoop => padYear)
    /\ expr \in (IF IsAdjust THEN ExprSamples \cup {RawExpr} ELSE {RawExpr})
    /\ time_string \in (IF IsMain THEN ArgvSamples
                        ELSE IF IsLoop THEN AdjustmentSamples
                        ELSE IF ~IsAdjust THEN {<<>>}
                        ELSE IF expr = RawExpr THEN RawTimeStrings
                        ELSE {Render(expr)})
    /\ exit_status = NotExited
    /\ media_files \in (IF IsLoop
                        THEN UNION { [1..n -> MediaSamples] : n \in 0..MaxFiles }
                        ELSE {<<>>})
    /\ file_index = 0
    /\ invoked = <<>>
    /\ results = <<>>
    /\ reported = <<>>
    /\ procs \in (IF IsParallel
                  THEN { << StartOf(t[1], c[1]), StartOf(t[2], c[2]) >> :
                           t \in TargetPairs, c \in ParContents \X ParContents }
                       \cup { << StartOf(PathSamples[1], c), StartOf(PathSamples[1], c) >> :
                                c \in ParContents }
                  ELSE { <<>> })
    /\ disk \in (IF IsParallel
                 THEN { [p \in ParPaths |->
                           IF p = procs[1].file_path THEN File(procs[1].original)
                           ELSE IF p = procs[2].file_path THEN File(procs[2].original)
                           ELSE NoFile] }
                 ELSE IF IsFfmpeg THEN VideoDirs
                 ELSE { EmptyDisk })
    /\ disk0 = disk
    /\ destination0 \in (IF IsOrganize THEN TreeSamples
                         ELSE IF IsGenerate
                         THEN { [EmptyTree EXCEPT !["2006_08_28"] = d] : d \in DirectorySamples }
                         ELSE { EmptyTree })
    /\ destination = destination0
    /\ discovered_media_files \in
           (IF IsOrganize THEN UNION { [1..n -> SourceSamples] : n \in 0..MaxSources }
            ELSE IF IsGenerate
            THEN { << Source(n, 1, "2006_08_28", FALSE) >> : n \in { <<"a">>, <<"a", 2>> } }
            ELSE { <<>> })
    /\ current_index = 0
    /\ organization_statistics = NoStatistics
    /\ processed_file_hashes = {}
    /\ files_organized_by_date = [d \in Folders |-> <<>>]
    /\ file_results = <<>>
    /\ unique_filename = NotCalled
    /\ strict = NotParsed
    /\ lenient = NotParsed
    /\ dt \in (IF IsFormat THEN DateSamples ELSE {NoneVal})
    /\ date_str \in (IF IsParse THEN DateStrSamples ELSE {<<>>})
    /\ encoded = <<>>
    /\ decoded = NoneVal
    /\ fs = [p \in Paths |-> IF p = FilePath THEN orig ELSE NoFile]
    /\ orig_mtime \in (IF orig.exists THEN MtimeSamples ELSE {NoneVal})
    /\ mt = [p \in Paths |-> IF p = FilePath THEN orig_mtime ELSE NoneVal]
    /\ pc = (IF IsFixer /\ ~IsMain THEN "backup"
             ELSE IF IsLoop THEN "main_start"
             ELSE IF IsParallel THEN "parallel"
             ELSE IF IsFfmpeg THEN "ffmpeg_check"
             ELSE IF IsOrganize THEN "organize_files"
             ELSE IF IsGenerate THEN "generate_unique_filename"
             ELSE "start")
    /\ loc = NotLocated
    /\ current_date = NoneVal
    /\ new_date = NoneVal
    /\ new_date_str = <<>>
    /\ new_date_bytes = <<>>
    /\ ret = "running"
    /\ errors = <<>>
    /\ result = NoResult
    /\ locs = << NotLocated, NotLocated, NotLocated >>
    /\ hist = NoHist

\* ------------------------------------------------------------------------
\* MetadataTimeChanger.process_single_file, up to the call of the patcher
\* ------------------------------------------------------------------------
\* adjust_timestamps: a value whose addition raises is kept unadjusted
adjust_timestamps(timestamps, td) ==
    [f \in DOMAIN timestamps |->
        IF timestamps[f] = NoneVal THEN NoneVal
        ELSE IF AddDelta(timestamps[f], td) = Overflow THEN timestamps[f]
        ELSE AddDelta(timestamps[f], td)]
\* the errors adjust_timestamps records, one per value it could not adjust
AdjustErrors(timestamps, td) ==
    LET n == Cardinality({ f \in DOMAIN timestamps :
                             /\ timestamps[f] # NoneVal
                             /\ AddDelta(timestamps[f], td) = Overflow })
    IN  [i \in 1..n |-> "Could not adjust timestamp"]

\* "For videos with no existing metadata, use adjusted filesystem time"
WithFilesystemFallback(adjusted_metadata, adjusted_mtime) ==
    IF \A f \in DOMAIN adjusted_metadata : adjusted_metadata[f] = NoneVal
    THEN [f \in DOMAIN adjusted_metadata \cup {"creation_time"} |->
            IF f = "creation_time" THEN adjusted_mtime ELSE adjusted_metadata[f]]
    ELSE adjusted_metadata

timestamp_priority == << "creation_time", "recorded_date", "date", "encoded_date",
                         "tagged_date", "mastered_date" >>
\* variant: the last field of the priority list that is present and not None
PrimaryTimestamp_Last(timestamps) ==
    LET idx == { i \in 1..Len(timestamp_priority) :
                   /\ timestamp_priority[i] \in DOMAIN timestamps
                   /\ timestamps[timestamp_priority[i]] # NoneVal }
    IN  IF idx = {} THEN NoneVal
        ELSE timestamps[timestamp_priority[CHOOSE i \in idx : \A j \in idx : i >= j]]

\* write_video_metadata_timestamps: the first field of the priority list that
\* is present and not None
PrimaryTimestamp(timestamps) ==
    LET idx == { i \in 1..Len(timestamp_priority) :
                   /\ timestamp_priority[i] \in DOMAIN timestamps
                   /\ timestamps[timestamp_priority[i]] # NoneVal }
    IN  IF idx = {} THEN NoneVal
        ELSE timestamps[timestamp_priority[CHOOSE i \in idx : \A j \in idx : i <= j]]

\* the modification time process_single_file sets on the file
AdjustedMtime == adjust_timestamps([modification_time |-> orig_mtime], time_delta).modification_time

\* where process_single_file returns to: the loop of main, or its caller
AfterFile == IF IsLoop THEN "count" ELSE "done"

process_single_file_begin ==
    /\ IsBatch /\ pc = "start"
    /\ LET readErrors == IF meta.raise THEN << "Could not read video metadata" >> ELSE <<>>
           original == meta.ts
           adjusted == adjust_timestamps(original, time_delta)
           adjErrors == AdjustErrors(original, time_delta)
                        \o AdjustErrors([modification_time |-> orig_mtime], time_delta)
           toWrite == WithFilesystemFallback(adjusted, AdjustedMtime)
           primary == PrimaryTimestamp(toWrite)
       IN  IF ~fs[FilePath].exists
           THEN \* file_path.stat() raises: "Error processing file"
                /\ errors' = errors \o readErrors \o << "Error processing file" >>
                /\ result' = NoResult
                /\ pc' = AfterFile
                /\ UNCHANGED << timestamp >>
           ELSE IF dry_run
           THEN /\ errors' = errors \o readErrors \o adjErrors
                /\ result' = [processed |-> TRUE, metadata_updated |-> TRUE,
                              filesystem_updated |-> TRUE]
                /\ pc' = AfterFile
                /\ UNCHANGED << timestamp >>
           ELSE IF primary = NoneVal
           THEN \* write_video_metadata_timestamps returns False
                /\ errors' = errors \o readErrors \o adjErrors
                /\ result' = [result EXCEPT !.metadata_updated = FALSE]
                /\ pc' = "set_fs"
                /\ UNCHANGED << timestamp >>
           ELSE /\ errors' = errors \o readErrors \o adjErrors
                /\ timestamp' = primary
                /\ pc' = "backup"
                /\ UNCHANGED << result >>
    /\ UNCHANGED << inputs, others, locals, fs, mt, ret, locs, hist >>

\* variant: no timestamp is found to set, True is returned without os.utime
set_file_system_timestamps_NoUtime ==
    /\ IsBatch /\ pc = "set_fs"
    /\ result' = [result EXCEPT !.filesystem_updated = TRUE, !.processed = TRUE]
    /\ pc' = AfterFile
    /\ UNCHANGED << inputs, others, locals, fs, mt, timestamp, ret, locs, errors, hist >>

\* set_file_system_timestamps and the end of process_single_file
set_file_system_timestamps ==
    /\ IsBatch /\ pc = "set_fs"
    /\ \/ \* os.utime succeeds
          /\ mt' = [mt EXCEPT ![FilePath] = AdjustedMtime]
          /\ result' = [result EXCEPT !.filesystem_updated = TRUE, !.processed = TRUE]
          /\ UNCHANGED << errors, hist >>
       \/ \* os.utime raises
          /\ errors' = errors \o << "Could not set file system timestamps" >>
          /\ result' = [result EXCEPT !.filesystem_updated = FALSE, !.processed = TRUE]
          /\ hist' = [hist EXCEPT !.faults = @ + 1]
          /\ UNCHANGED << mt >>
    /\ pc' = AfterFile
    /\ UNCHANGED << inputs, others, locals, fs, timestamp, ret, locs >>

\* ------------------------------------------------------------------------
\* The patchers: avi_riff_date_fixer.fix_avi_date_inplace and
\* MetadataTimeChanger.write_avi_metadata_safe_inplace_modify
\* ------------------------------------------------------------------------
\* the patcher returns v; process_single_file stores it and goes on
Return(v) ==
    /\ ret' = v
    /\ pc' = IF IsBatch THEN "set_fs" ELSE IF IsMain THEN "exit" ELSE "done"
    /\ result' = IF IsBatch THEN [result EXCEPT !.metadata_updated = (v = "True")]
                 ELSE result

Fault == [hist EXCEPT !.faults = @ + 1]

\* write_avi_metadata_safe_inplace_modify called on its own: "if self.dry_run"
write_avi_begin ==
    /\ IsDirect /\ pc = "start"
    /\ IF dry_run THEN Return("True") ELSE pc' = "backup" /\ UNCHANGED << ret, result >>
    /\ UNCHANGED << inputs, others, locals, fs, mt, timestamp, errors, locs, hist >>

\* variant: the operation goes on without having copied the file
CreateBackup_NoCopy ==
    /\ ~IsLocate /\ pc = "backup"
    /\ hist' = [hist EXCEPT !.backupCreated = TRUE]
    /\ pc' = "read"
    /\ UNCHANGED << inputs, others, locals, fs, mt, timestamp, ret, result, errors, locs >>

\* "Create backup": shutil.copy2(file_path, backup_path)
CreateBackup ==
    /\ ~IsLocate /\ pc = "backup"
    /\ \/ /\ fs[FilePath].exists
          /\ fs' = [fs EXCEPT ![BackupPath] = fs[FilePath]]
          /\ mt' = [mt EXCEPT ![BackupPath] = mt[FilePath]]
          /\ hist' = [hist EXCEPT !.backupCreated = TRUE]
          /\ pc' = "read"
          /\ UNCHANGED << ret, result, errors >>
       \/ \* the copy raises: nothing, or part of the file, is at the backup path
          /\ \/ UNCHANGED << fs, mt >>
             \/ /\ fs[FilePath].exists
                /\ \E k \in PartialLens(fs[FilePath].bytes) :
                     fs' = [fs EXCEPT ![BackupPath] = File(Take(fs[FilePath].bytes, k))]
                /\ mt' = [mt EXCEPT ![BackupPath] = NowTime]
          /\ hist' = Fault
          /\ errors' = Record(<< "RIFF-preserving AVI modifier failed" >>)
          /\ Return("False")
    /\ UNCHANGED << inputs, others, locals, timestamp, locs >>

\* "Read the entire file"
ReadFile ==
    /\ pc = "read"
    /\ \/ /\ data' = fs[FilePath].bytes
          /\ pc' = "locate"
          /\ UNCHANGED hist
       \/ /\ hist' = Fault
          /\ pc' = "except"
          /\ UNCHANGED data
    /\ UNCHANGED << inputs, others, fs, mt, timestamp, loc, current_date, new_date,
                    new_date_str, new_date_bytes, ret, errors, result, locs >>

\* variant: a missing chunk is raised to the handler instead of returned
LocateChunk_RaiseOnMissing ==
    /\ pc = "locate"
    /\ loc' = IF IsFixer THEN find_idit_chunk(data) ELSE _find_idit_chunk(data)
    /\ pc' = IF loc'.kind = "found" THEN "parse" ELSE "except"
    /\ errors' = IF loc'.kind = "none" THEN Record(<< "No IDIT chunk found" >>) ELSE errors
    /\ UNCHANGED << inputs, others, fs, mt, timestamp, data, current_date, new_date,
                    new_date_str, new_date_bytes, ret, result, locs, hist >>

\* "Find IDIT chunk"
LocateChunk ==
    /\ pc = "locate"
    /\ loc' = IF IsFixer THEN find_idit_chunk(data) ELSE _find_idit_chunk(data)
    /\ pc' = IF loc'.kind = "none" THEN "unlink_nf"
             ELSE IF loc'.kind = "raise" THEN "except"
             ELSE "parse"
    /\ errors' = IF loc'.kind = "none" THEN Record(<< "No IDIT chunk found" >>) ELSE errors
    /\ UNCHANGED << inputs, others, fs, mt, timestamp, data, current_date, new_date,
                    new_date_str, new_date_bytes, ret, result, locs, hist >>

\* backup_path.unlink() on a path where the patcher returns v when it succeeds
RemoveBackupAnd(v) ==
    \/ /\ fs' = [fs EXCEPT ![BackupPath] = NoFile]
       /\ mt' = [mt EXCEPT ![BackupPath] = NoneVal]
       /\ Return(v)
       /\ UNCHANGED hist
    \/ \* unlink raises, the handler takes over
       /\ hist' = [Fault EXCEPT !.unlinkFailed = TRUE]
       /\ pc' = "except"
       /\ UNCHANGED << fs, mt, ret, result >>

\* no chunk: "Clean up backup before returning", return False
RemoveBackupNotFound ==
    /\ pc = "unlink_nf"
    /\ RemoveBackupAnd("False")
    /\ UNCHANGED << inputs, others, locals, timestamp, errors, locs >>

\* "Parse current date"
ParseCurrentDate ==
    /\ pc = "parse"
    /\ current_date' = parse_canon_date(DecodeAsciiIgnore(loc.data))
    /\ IF current_date' # NoneVal
       THEN pc' = "compute" /\ UNCHANGED << ret, result, errors >>
       ELSE IF IsFixer
       THEN \* "Could not parse current date": return False, the backup stays
            Return("False") /\ UNCHANGED errors
       ELSE /\ errors' = Record(<< "Could not parse Canon date", "Could not parse current date" >>)
            /\ pc' = "unlink_pf"
            /\ UNCHANGED << ret, result >>
    /\ UNCHANGED << inputs, others, fs, mt, timestamp, data, loc, new_date,
                    new_date_str, new_date_bytes, locs, hist >>

\* MetadataTimeChanger only: unparsable date, unlink the backup, return False
RemoveBackupUnparsable ==
    /\ pc = "unlink_pf"
    /\ RemoveBackupAnd("False")
    /\ UNCHANGED << inputs, others, locals, timestamp, errors, locs >>

\* the timestamp the patcher encodes: current date plus the delta for the
\* fixer, the supplied timestamp for MetadataTimeChanger
DateToWrite == IF IsFixer THEN AddDelta(current_date, time_delta) ELSE timestamp

\* "Calculate new date", "Pad or truncate", "Replace the date data"
ComputeNewPayload ==
    /\ pc = "compute"
    /\ new_date' = DateToWrite
    /\ IF new_date' = Overflow
       THEN /\ pc' = "except"
            /\ UNCHANGED << new_date_str, new_date_bytes, data >>
       ELSE LET original_size == Len(loc.data)
                date_start == loc.pos + 8
                date_end == date_start + original_size
            IN  /\ new_date_str' = format_canon_date(new_date', padYear)
                /\ new_date_bytes' = PadOrTruncate(new_date_str', original_size)
                /\ data' = SpliceSlice(data, date_start, date_end, new_date_bytes')
                /\ pc' = "open_w"
    /\ UNCHANGED << inputs, others, fs, mt, timestamp, loc, current_date, ret, errors,
                    result, locs, hist >>

\* open(file_path, "wb"): the file is truncated
OpenForWrite ==
    /\ pc = "open_w"
    /\ \/ /\ fs' = [fs EXCEPT ![FilePath] = File(<<>>)]
          /\ mt' = [mt EXCEPT ![FilePath] = NowTime]
          /\ hist' = [hist EXCEPT !.writes = @ + 1]
          /\ pc' = "write"
       \/ /\ hist' = Fault
          /\ pc' = "except"
          /\ UNCHANGED << fs, mt >>
    /\ UNCHANGED << inputs, others, locals, timestamp, ret, errors, result, locs >>

\* f.write(data) and the close of the file
WriteBuffer ==
    /\ pc = "write"
    /\ \/ /\ fs' = [fs EXCEPT ![FilePath] = File(data)]
          /\ hist' = [hist EXCEPT !.writeDone = TRUE]
          /\ pc' = "unlink_ok"
       \/ \* the write raises part-way
          /\ \E k \in PartialLens(data) :
               fs' = [fs EXCEPT ![FilePath] = File(Take(data, k))]
          /\ hist' = Fault
          /\ pc' = "except"
    /\ UNCHANGED << inputs, others, locals, mt, timestamp, ret, errors, result, locs >>

\* "Clean up backup if successful", return True
RemoveBackupSuccess ==
    /\ pc = "unlink_ok"
    /\ RemoveBackupAnd("True")
    /\ UNCHANGED << inputs, others, locals, timestamp, errors, locs >>

\* variant: the handler removes the backup without copying it back
RestoreFromBackup_NoCopy ==
    /\ pc = "except"
    /\ errors' = Record(<< "RIFF modification failed" >>)
    /\ pc' = "restore_unlink"
    /\ UNCHANGED << inputs, others, locals, fs, mt, timestamp, ret, result, locs, hist >>

\* except Exception: "Restore from backup", shutil.copy2(backup_path, file_path)
RestoreFromBackup ==
    /\ pc = "except"
    /\ \/ /\ fs' = [fs EXCEPT ![FilePath] = fs[BackupPath]]
          /\ mt' = [mt EXCEPT ![FilePath] = mt[BackupPath]]
          /\ hist' = [hist EXCEPT !.writes = @ + 1]
          /\ errors' = Record(<< "RIFF modification failed" >>)
          /\ pc' = "restore_unlink"
          /\ UNCHANGED << ret, result >>
       \/ \* the copy raises before it opens the target
          /\ hist' = [Fault EXCEPT !.restoreFailed = TRUE]
          /\ errors' = Record(<< "RIFF modification failed", "RIFF-preserving AVI modifier failed" >>)
          /\ Return("False")
          /\ UNCHANGED << fs, mt >>
       \/ \* the copy raises part-way
          /\ \E k \in PartialLens(fs[BackupPath].bytes) :
               fs' = [fs EXCEPT ![FilePath] = File(Take(fs[BackupPath].bytes, k))]
          /\ mt' = [mt EXCEPT ![FilePath] = NowTime]
          /\ hist' = [Fault EXCEPT !.restoreFailed = TRUE, !.writes = @ + 1]
          /\ errors' = Record(<< "RIFF modification failed", "RIFF-preserving AVI modifier failed" >>)
          /\ Return("False")
    /\ UNCHANGED << inputs, others, locals, timestamp, locs >>

\* the handler's backup_path.unlink(), return False either way
RemoveBackupAfterRestore ==
    /\ pc = "restore_unlink"
    /\ \/ /\ fs' = [fs EXCEPT ![BackupPath] = NoFile]
          /\ mt' = [mt EXCEPT ![BackupPath] = NoneVal]
          /\ UNCHANGED << hist, errors >>
       \/ /\ hist' = [Fault EXCEPT !.unlinkFailed = TRUE]
          /\ errors' = Record(<< "RIFF-preserving AVI modifier failed" >>)
          /\ UNCHANGED << fs, mt >>
    /\ Return("False")
    /\ UNCHANGED << inputs, others, locals, timestamp, locs >>

\* the three locators applied to a buffer
LocateCall ==
    /\ IsLocate /\ pc = "start"
    /\ locs' = << find_idit_chunk_utils(data), find_idit_chunk(data), _find_idit_chunk(data) >>
    /\ pc' = "done"
    /\ UNCHANGED << inputs, others, locals, fs, mt, timestamp, ret, errors, result, hist >>

\* format_canon_date(dt), and parse_canon_date on what it returned
FormatCall ==
    /\ IsFormat /\ pc = "start"
    /\ encoded' = format_canon_date(dt, padYear)
    /\ date_str' = encoded'
    /\ pc' = "formatted"
    /\ UNCHANGED << inputs, patchVars, parserVars, exit_status, batchVars, parVars, dt, decoded, organizerVars >>

\* parse_canon_date(date_str)
ParseCall ==
    /\ \/ IsParse /\ pc = "start"
       \/ IsFormat /\ pc = "formatted"
    /\ decoded' = parse_canon_date(date_str)
    /\ pc' = "done"
    /\ UNCHANGED << inputs, patchVars, parserVars, exit_status, batchVars, parVars, dt, date_str,
                    encoded, organizerVars >>

\* avi_riff_date_fixer.main up to the call of fix_avi_date_inplace:
\* "File not found" and "Invalid time format" both end in sys.exit(1)
main_begin ==
    /\ IsMain /\ pc = "start"
    /\ lenient' = IF fs[FilePath].exists THEN main_time_delta(time_string) ELSE lenient
    /\ IF ~fs[FilePath].exists \/ lenient'.raise # "none"
       THEN exit_status' = 1 /\ pc' = "done" /\ UNCHANGED time_delta
       ELSE time_delta' = lenient'.td /\ pc' = "backup" /\ UNCHANGED exit_status
    /\ UNCHANGED << entry, dry_run, padYear, meta, orig, orig_mtime, disk0, destination0,
                    patchVars, codecVars,
                    batchVars, parVars, expr, time_string, strict, organizerVars >>

\* sys.exit(0 if success else 1)
main_exit ==
    /\ IsMain /\ pc = "exit"
    /\ exit_status' = IF ret = "True" THEN 0 ELSE 1
    /\ pc' = "done"
    /\ UNCHANGED << inputs, patchVars, codecVars, parserVars, batchVars, parVars, organizerVars >>

\* metadata_time_changer.main up to the loop: MetadataTimeChanger(...) parses
\* the adjustment, TimeParsingError ends in sys.exit(1); no files, return
changer_main_begin ==
    /\ IsLoop /\ pc = "main_start"
    /\ strict' = parse_time_adjustment(time_string)
    /\ IF strict'.raise # "none"
       THEN exit_status' = 1 /\ pc' = "done" /\ UNCHANGED time_delta
       ELSE /\ time_delta' = strict'.td
            /\ IF Len(media_files) = 0
               THEN exit_status' = 0 /\ pc' = "done"
               ELSE pc' = "loop" /\ UNCHANGED exit_status
    /\ UNCHANGED << entry, dry_run, padYear, meta, orig, orig_mtime, disk0, destination0,
                    patchVars, codecVars,
                    expr, time_string, lenient, batchVars, parVars, organizerVars >>

\* "for file_path in media_files: result = changer.process_single_file(file_path)"
NextFile ==
    /\ IsLoop /\ pc = "loop" /\ file_index < Len(media_files)
    /\ LET f == media_files[file_index + 1] IN
       /\ file_index' = file_index + 1
       /\ invoked' = Append(invoked, file_index + 1)
       /\ orig' = f.file /\ orig_mtime' = f.mtime /\ meta' = f.meta
       /\ fs' = [p \in Paths |-> IF p = FilePath THEN f.file ELSE NoFile]
       /\ mt' = [p \in Paths |-> IF p = FilePath THEN f.mtime ELSE NoneVal]
    /\ pc' = "start"
    /\ timestamp' = NoneVal /\ data' = <<>> /\ loc' = NotLocated
    /\ current_date' = NoneVal /\ new_date' = NoneVal
    /\ new_date_str' = <<>> /\ new_date_bytes' = <<>>
    /\ ret' = "running" /\ result' = NoResult /\ hist' = NoHist
    /\ UNCHANGED << entry, dry_run, padYear, time_delta, disk0, destination0, errors, locs,
                    codecVars, parserVars,
                    exit_status, media_files, results, reported, parVars, organizerVars >>

\* variant: the loop is left at the first file that was not processed
CountResult_StopOnFailure ==
    /\ IsLoop /\ pc = "count"
    /\ results' = Append(results, result)
    /\ pc' = "loop"
    /\ file_index' = IF result.processed THEN file_index ELSE Len(media_files)
    /\ UNCHANGED << inputs, patchVars, codecVars, parserVars, exit_status,
                    media_files, invoked, reported, parVars, organizerVars >>

\* the rest of the loop body: the counters and the verbose output
CountResult ==
    /\ IsLoop /\ pc = "count"
    /\ results' = Append(results, result)
    /\ pc' = "loop"
    /\ UNCHANGED << inputs, patchVars, codecVars, parserVars, exit_status,
                    media_files, file_index, invoked, reported, parVars, organizerVars >>

\* "Show summary", "Show errors in red if any"
ReportErrors ==
    /\ IsLoop /\ pc = "loop" /\ file_index = Len(media_files)
    /\ reported' = errors
    /\ exit_status' = 0
    /\ pc' = "done"
    /\ UNCHANGED << inputs, patchVars, codecVars, parserVars,
                    media_files, file_index, invoked, results, parVars, organizerVars >>

\* "Create backup": shutil.copy2(file_path, backup_path); when it raises the
\* operation returns False
ParCreateBackup ==
    /\ IsParallel
    /\ \E i \in ProcIds :
        /\ procs[i].pc = "backup"
        /\ IF disk[procs[i].file_path].exists
           THEN /\ disk' = [disk EXCEPT ![BackupOf(i)] = disk[procs[i].file_path]]
                /\ Goes(i, [Touch(i, BackupOf(i)) EXCEPT !.pc = "read"])
           ELSE /\ Goes(i, Returns(procs[i], "False"))
                /\ UNCHANGED disk
    /\ UNCHANGED << inputs, patchVars, pc, codecVars, parserVars, exit_status, batchVars, organizerVars >>

\* "Read the entire file"
ParReadFile ==
    /\ IsParallel
    /\ \E i \in ProcIds :
        /\ procs[i].pc = "read"
        /\ IF disk[procs[i].file_path].exists
           THEN Goes(i, [procs[i] EXCEPT !.pc = "patch",
                                         !.data = disk[procs[i].file_path].bytes])
           ELSE Goes(i, [procs[i] EXCEPT !.pc = "except"])
    /\ UNCHANGED << inputs, patchVars, pc, codecVars, parserVars, exit_status, batchVars, disk, organizerVars >>

\* "Find IDIT chunk" to "Replace the date data", on the operation's own buffer
ParPatchBuffer ==
    /\ IsParallel
    /\ \E i \in ProcIds :
        /\ procs[i].pc = "patch"
        /\ LET patched == PatchBuffer(ParFixer, procs[i].data) IN
           Goes(i, IF patched.kind = "ok"
                   THEN [procs[i] EXCEPT !.pc = "open_w", !.data = patched.data]
                   ELSE IF patched.kind = "raise"
                   THEN [procs[i] EXCEPT !.pc = "except"]
                   ELSE IF patched.kind = "unparsable" /\ ParFixer
                   THEN Returns(procs[i], "False")
                   ELSE [procs[i] EXCEPT !.pc = "unlink_nf"])
    /\ UNCHANGED << inputs, patchVars, pc, codecVars, parserVars, exit_status, batchVars, disk, organizerVars >>

\* "if backup_path.exists(): backup_path.unlink()", return False
ParRemoveBackupNotFound ==
    /\ IsParallel
    /\ \E i \in ProcIds :
        /\ procs[i].pc = "unlink_nf"
        /\ disk' = [disk EXCEPT ![BackupOf(i)] = NoFile]
        /\ Goes(i, Returns(IF disk[BackupOf(i)].exists THEN Unlinked(i, BackupOf(i))
                            ELSE procs[i], "False"))
    /\ UNCHANGED << inputs, patchVars, pc, codecVars, parserVars, exit_status, batchVars, organizerVars >>

\* open(file_path, "wb"): the file is truncated, or created
ParOpenForWrite ==
    /\ IsParallel
    /\ \E i \in ProcIds :
        /\ procs[i].pc = "open_w"
        /\ disk' = [disk EXCEPT ![procs[i].file_path] = File(<<>>)]
        /\ Goes(i, [Touch(i, procs[i].file_path) EXCEPT !.pc = "write"])
    /\ UNCHANGED << inputs, patchVars, pc, codecVars, parserVars, exit_status, batchVars, organizerVars >>

\* variant: the write is followed by an exception, the handler takes over
ParWriteBuffer_ThenRaise ==
    /\ IsParallel
    /\ \E i \in ProcIds :
        /\ procs[i].pc = "write"
        /\ disk' = [disk EXCEPT ![procs[i].file_path] = File(procs[i].data)]
        /\ Goes(i, [Touch(i, procs[i].file_path) EXCEPT !.pc = "except"])
    /\ UNCHANGED << inputs, patchVars, pc, codecVars, parserVars, exit_status, batchVars, organizerVars >>

\* f.write(data) and the close of the file
ParWriteBuffer ==
    /\ IsParallel
    /\ \E i \in ProcIds :
        /\ procs[i].pc = "write"
        /\ disk' = [disk EXCEPT ![procs[i].file_path] = File(procs[i].data)]
        /\ Goes(i, [Touch(i, procs[i].file_path) EXCEPT !.pc = "unlink_ok"])
    /\ UNCHANGED << inputs, patchVars, pc, codecVars, parserVars, exit_status, batchVars, organizerVars >>

\* "Clean up backup if successful": backup_path.unlink() in the fixer, which
\* raises when the backup is gone; behind backup_path.exists() in
\* MetadataTimeChanger; return True
ParRemoveBackupSuccess ==
    /\ IsParallel
    /\ \E i \in ProcIds :
        /\ procs[i].pc = "unlink_ok"
        /\ IF disk[BackupOf(i)].exists
           THEN /\ disk' = [disk EXCEPT ![BackupOf(i)] = NoFile]
                /\ Goes(i, Returns(Unlinked(i, BackupOf(i)), "True"))
           ELSE /\ Goes(i, IF ParFixer THEN [procs[i] EXCEPT !.pc = "except"]
                           ELSE Returns(procs[i], "True"))
                /\ UNCHANGED disk
    /\ UNCHANGED << inputs, patchVars, pc, codecVars, parserVars, exit_status, batchVars, organizerVars >>

\* except Exception: "Restore from backup", shutil.copy2(backup_path,
\* file_path); without a backup the operation returns False
ParRestoreFromBackup ==
    /\ IsParallel
    /\ \E i \in ProcIds :
        /\ procs[i].pc = "except"
        /\ IF disk[BackupOf(i)].exists
           THEN /\ disk' = [disk EXCEPT ![procs[i].file_path] = disk[BackupOf(i)]]
                /\ Goes(i, [Touch(i, procs[i].file_path) EXCEPT !.pc = "restore_unlink"])
           ELSE /\ Goes(i, Returns(procs[i], "False"))
                /\ UNCHANGED disk
    /\ UNCHANGED << inputs, patchVars, pc, codecVars, parserVars, exit_status, batchVars, organizerVars >>

\* the handler's backup_path.unlink(), return False either way
ParRemoveBackupAfterRestore ==
    /\ IsParallel
    /\ \E i \in ProcIds :
        /\ procs[i].pc = "restore_unlink"
        /\ disk' = [disk EXCEPT ![BackupOf(i)] = NoFile]
        /\ Goes(i, Returns(IF disk[BackupOf(i)].exists THEN Unlinked(i, BackupOf(i))
                            ELSE procs[i], "False"))
    /\ UNCHANGED << inputs, patchVars, pc, codecVars, parserVars, exit_status, batchVars, organizerVars >>

\* what write_video_metadata_with_ffmpeg leaves alone
ffmpegFrame == << inputs, locals, fs, mt, timestamp, result, locs, hist, codecVars, parserVars,
                 exit_status, batchVars, procs, organizerVars >>

\* "if not ffmpeg or not subprocess", "if not shutil.which("ffmpeg")": return
\* False before the try; "if self.dry_run: return True" inside it
ffmpeg_check ==
    /\ IsFfmpeg /\ pc = "ffmpeg_check"
    /\ \/ /\ errors' = errors \o << "ffmpeg not available" >>
          /\ ret' = "False" /\ pc' = "done"
       \/ /\ errors' = errors \o << "ffmpeg binary not found" >>
          /\ ret' = "False" /\ pc' = "done"
       \/ /\ IF dry_run THEN ret' = "True" /\ pc' = "finally"
                      ELSE pc' = "subprocess_run" /\ UNCHANGED ret
          /\ UNCHANGED errors
    /\ UNCHANGED << ffmpegFrame, disk >>

\* subprocess.run(cmd, capture_output=True, text=True, check=True): "-y"
\* overwrites the temporary file
ffmpeg_run ==
    /\ IsFfmpeg /\ pc = "subprocess_run"
    /\ \/ /\ disk' = [disk EXCEPT ![temp_output] =
                         File(FfmpegOutput(disk[VideoPath].bytes, timestamp))]
          /\ pc' = "rename_backup"
          /\ UNCHANGED << ret, errors >>
       \/ \* CalledProcessError: no output, or part of it
          /\ \/ UNCHANGED disk
             \/ \E k \in PartialLens(FfmpegOutput(disk[VideoPath].bytes, timestamp)) :
                  disk' = [disk EXCEPT ![temp_output] =
                      File(Take(FfmpegOutput(disk[VideoPath].bytes, timestamp), k))]
          /\ errors' = errors \o << "ffmpeg command failed" >>
          /\ ret' = "False" /\ pc' = "finally"
       \/ \* ffmpeg exits with 0 and has written nothing
          /\ ~disk[temp_output].exists
          /\ errors' = errors \o << "ffmpeg failed to create output file" >>
          /\ ret' = "False" /\ pc' = "finally"
          /\ UNCHANGED disk
    /\ UNCHANGED ffmpegFrame

\* "Create backup": file_path.rename(backup_file)
ffmpeg_rename_backup ==
    /\ IsFfmpeg /\ pc = "rename_backup"
    /\ \/ /\ disk' = [disk EXCEPT ![backup_file] = disk[VideoPath], ![VideoPath] = NoFile]
          /\ pc' = "rename_temp"
          /\ UNCHANGED << ret, errors >>
       \/ /\ errors' = errors \o << "Failed to write video metadata" >>
          /\ ret' = "False" /\ pc' = "finally"
          /\ UNCHANGED disk
    /\ UNCHANGED ffmpegFrame

\* "Move new file to original location": temp_output.rename(file_path)
ffmpeg_rename_temp ==
    /\ IsFfmpeg /\ pc = "rename_temp"
    /\ \/ /\ disk' = [disk EXCEPT ![VideoPath] = disk[temp_output], ![temp_output] = NoFile]
          /\ pc' = "unlink_backup"
          /\ UNCHANGED << ret, errors >>
       \/ /\ errors' = errors \o << "Failed to write video metadata" >>
          /\ ret' = "False" /\ pc' = "finally"
          /\ UNCHANGED disk
    /\ UNCHANGED ffmpegFrame

\* "Remove backup": backup_file.unlink(), return True
ffmpeg_unlink_backup ==
    /\ IsFfmpeg /\ pc = "unlink_backup"
    /\ \/ /\ disk' = [disk EXCEPT ![backup_file] = NoFile]
          /\ ret' = "True"
          /\ UNCHANGED errors
       \/ /\ errors' = errors \o << "Failed to write video metadata" >>
          /\ ret' = "False"
          /\ UNCHANGED disk
    /\ pc' = "finally"
    /\ UNCHANGED ffmpegFrame

\* finally: "Clean up temporary files if they exist"; when the unlink raises
\* the exception leaves the function
ffmpeg_finally ==
    /\ IsFfmpeg /\ pc = "finally"
    /\ IF disk[temp_output].exists
       THEN \/ disk' = [disk EXCEPT ![temp_output] = NoFile] /\ UNCHANGED ret
            \/ ret' = "raised" /\ UNCHANGED disk
       ELSE UNCHANGED << disk, ret >>
    /\ pc' = "done"
    /\ UNCHANGED << ffmpegFrame, errors >>

\* what the organizer leaves alone
organizerFrame == << inputs, patchVars, codecVars, parserVars, exit_status, batchVars, parVars >>

\* generate_unique_filename called on its own
GenerateCall ==
    /\ IsGenerate /\ pc = "generate_unique_filename"
    /\ LET source == discovered_media_files[1] IN
       unique_filename' = generate_unique_filename(destination[source.folder], source.name,
                                                   source.content)
    /\ pc' = "done"
    /\ UNCHANGED << organizerFrame, destination, discovered_media_files, current_index,
                    organization_statistics, processed_file_hashes,
                    files_organized_by_date, file_results >>

\* organize_files up to the loop: find_media_files, _initialize_statistics
organize_begin ==
    /\ IsOrganize /\ pc = "organize_files"
    /\ organization_statistics' =
           [NoStatistics EXCEPT !.total_files = Len(discovered_media_files)]
    /\ pc' = "for_current_file_path"
    /\ UNCHANGED << organizerFrame, destination, discovered_media_files, current_index,
                    processed_file_hashes, files_organized_by_date, file_results,
                    unique_filename >>

\* variant: a duplicate found by generate_unique_filename is not counted
_update_statistics_from_file_result_NoDuplicates(statistics, type, conflict_resolved) ==
    IF type = "processed"
    THEN [statistics EXCEPT !.processed = @ + 1,
                            !.conflicts_resolved = IF conflict_resolved THEN @ + 1 ELSE @]
    ELSE statistics

\* _update_statistics_from_file_result
_update_statistics_from_file_result(statistics, type, conflict_resolved) ==
    IF type = "duplicate" THEN [statistics EXCEPT !.duplicates_skipped = @ + 1]
    ELSE IF type = "processed"
    THEN [statistics EXCEPT !.processed = @ + 1,
                            !.conflicts_resolved = IF conflict_resolved THEN @ + 1 ELSE @]
    ELSE statistics

\* what the loop notes about a file: which file, what happened, where it went
Noted(type, name) == Append(file_results, [type |-> type, name |-> name])

\* one pass of "for current_file_path in discovered_media_files":
\* _should_skip_file, _process_single_file, the statistics, "except Exception"
organize_file ==
    /\ IsOrganize /\ pc = "for_current_file_path"
    /\ current_index < Len(discovered_media_files)
    /\ current_index' = current_index + 1
    /\ LET file == discovered_media_files[current_index + 1]
           destination_directory == destination[file.folder]
           found == generate_unique_filename(destination_directory, file.name, file.content)
           \* a file written at found.name: what was at that name is replaced
           copy(content) == [destination EXCEPT ![file.folder] =
                                { f \in @ : f.name # found.name }
                                \cup { [name |-> found.name, content |-> content] }]
       IN  IF file.in_destination \/ is_duplicate(file.content, processed_file_hashes)
           THEN \* _should_skip_file
                /\ organization_statistics' =
                       [organization_statistics EXCEPT !.duplicates_skipped = @ + 1]
                /\ file_results' = Noted("skipped", <<>>)
                /\ UNCHANGED << destination, processed_file_hashes,
                                files_organized_by_date, unique_filename >>
           ELSE /\ unique_filename' = found
                /\ IF found.kind = "ValueError"
                   THEN /\ organization_statistics' =
                               [organization_statistics EXCEPT !.errors = @ + 1]
                        /\ file_results' = Noted("error", <<>>)
                        /\ UNCHANGED << destination, processed_file_hashes,
                                        files_organized_by_date >>
                   ELSE IF found.kind = "None"
                   THEN /\ organization_statistics' = _update_statistics_from_file_result(
                               organization_statistics, "duplicate", FALSE)
                        /\ file_results' = Noted("duplicate", <<>>)
                        /\ UNCHANGED << destination, processed_file_hashes,
                                        files_organized_by_date >>
                   ELSE \/ \* shutil.copy2, the hash, _track_file_by_date
                           /\ destination' = copy(file.content)
                           /\ processed_file_hashes' = processed_file_hashes \cup {file.content}
                           /\ files_organized_by_date' =
                                  [files_organized_by_date EXCEPT ![file.folder] =
                                      Append(@, << file.folder, found.name >>)]
                           /\ organization_statistics' = _update_statistics_from_file_result(
                                  organization_statistics, "processed", found.name # file.name)
                           /\ file_results' = Noted("processed", found.name)
                        \/ \* shutil.copy2 raises: nothing, part of the file, or (copystat
                           \* or the hash after it raising) the whole file is at the new path
                           /\ \/ UNCHANGED destination
                              \/ destination' = copy(0)
                              \/ destination' = copy(file.content)
                           /\ organization_statistics' =
                                  [organization_statistics EXCEPT !.errors = @ + 1]
                           /\ file_results' = Noted("error", found.name)
                           /\ UNCHANGED << processed_file_hashes, files_organized_by_date >>
    /\ UNCHANGED << organizerFrame, pc, discovered_media_files >>

\* _finalize_statistics and the return of organize_files
organize_end ==
    /\ IsOrganize /\ pc = "for_current_file_path"
    /\ current_index = Len(discovered_media_files)
    /\ organization_statistics' =
           [organization_statistics EXCEPT
               !.date_folders_created =
                   Cardinality({ d \in Folders : files_organized_by_date[d] # <<>> }),
               !.files_by_date = [d \in Folders |-> Len(files_organized_by_date[d])]]
    /\ pc' = "done"
    /\ UNCHANGED << organizerFrame, destination, discovered_media_files, current_index,
                    processed_file_hashes, files_organized_by_date, file_results,
                    unique_filename >>

\* MetadataTimeChanger.__init__: self.parse_time_adjustment(time_adjustment)
StrictCall ==
    /\ IsAdjust /\ pc = "start"
    /\ strict' = parse_time_adjustment(time_string)
    /\ pc' = "strict_done"
    /\ UNCHANGED << inputs, patchVars, codecVars, batchVars, parVars, expr, time_string, lenient,
                    exit_status, organizerVars >>

\* the same text given to avi_riff_date_fixer.main
LenientCall ==
    /\ IsAdjust /\ pc = "strict_done"
    /\ lenient' = main_time_delta(time_string)
    /\ pc' = "done"
    /\ UNCHANGED << inputs, patchVars, codecVars, batchVars, parVars, expr, time_string, strict,
                    exit_status, organizerVars >>

Next ==
    \/ process_single_file_begin
    \/ set_file_system_timestamps
    \/ write_avi_begin
    \/ CreateBackup
    \/ ReadFile
    \/ LocateChunk
    \/ RemoveBackupNotFound
    \/ ParseCurrentDate
    \/ RemoveBackupUnparsable
    \/ ComputeNewPayload
    \/ OpenForWrite
    \/ WriteBuffer
    \/ RemoveBackupSuccess
    \/ RestoreFromBackup
    \/ RemoveBackupAfterRestore
    \/ LocateCall
    \/ FormatCall
    \/ ParseCall
    \/ StrictCall
    \/ LenientCall
    \/ main_begin
    \/ main_exit
    \/ changer_main_begin
    \/ NextFile
    \/ CountResult
    \/ ReportErrors
    \/ ParCreateBackup
    \/ ParReadFile
    \/ ParPatchBuffer
    \/ ParRemoveBackupNotFound
    \/ ParOpenForWrite
    \/ ParWriteBuffer
    \/ ParRemoveBackupSuccess
    \/ ParRestoreFromBackup
    \/ ParRemoveBackupAfterRestore
    \/ ffmpeg_check
    \/ ffmpeg_run
    \/ ffmpeg_rename_backup
    \/ ffmpeg_rename_temp
    \/ ffmpeg_unlink_backup
    \/ ffmpeg_finally
    \/ GenerateCall
    \/ organize_begin
    \/ organize_file
    \/ organize_end

Spec == Init /\ [][Next]_vars

\* ------------------------------------------------------------------------
\* Properties
\* ------------------------------------------------------------------------
Returned == ret # "running"
ZeroDelta == TimeDelta(0, 0, 0)
\* a timestamp at the precision the text format carries
WholeSeconds(t) == [t EXCEPT !.us = 0]
\* the chunk of the target file as it is now: tag offset, declared size
TagOffset(buf) == Find(buf, IDIT)
HasSizeField(buf) == TagOffset(buf) # -1 /\ TagOffset(buf) + 8 <= Len(buf)
DeclaredSize(buf) == UnpackLE32(SubSeq(buf, TagOffset(buf) + 5, TagOffset(buf) + 8))
HasChunk(buf) == HasSizeField(buf) /\ TagOffset(buf) + 8 + DeclaredSize(buf) <= Len(buf)
PayloadOf(buf) == SubSeq(buf, TagOffset(buf) + 9, TagOffset(buf) + 8 + DeclaredSize(buf))
\* locating the chunk in the target file and decoding its payload
Readback ==
    IF fs[FilePath].exists /\ HasChunk(fs[FilePath].bytes)
    THEN Strptime(CleanDate(DecodeAsciiIgnore(PayloadOf(fs[FilePath].bytes))))
    ELSE NoneVal

C2_FramePreserved ==
    (ret = "True" /\ orig.exists /\ HasChunk(orig.bytes)) =>
        LET old == orig.bytes
            new == fs[FilePath].bytes
            p == TagOffset(old)
            L == DeclaredSize(old)
        IN  /\ fs[FilePath].exists
            /\ Len(new) = Len(old)
            /\ UnpackLE32(SubSeq(new, p + 5, p + 8)) = L
            /\ \A i \in 1..Len(old) : (i <= p + 8 \/ i > p + 8 + L) => new[i] = old[i]

\* a patch succeeded and changed the payload
C2_Witness ==
    /\ ret = "True" /\ ~dry_run /\ HasChunk(orig.bytes)
    /\ fs[FilePath] # orig
    /\ PayloadOf(fs[FilePath].bytes) = new_date_bytes

\* C3: the payload written into the buffer has exactly the original payload's
\* length: the encoded text NUL-padded on the right when it is shorter,
\* its first bytes when it is longer.
C3_PayloadLength ==
    (new_date_str # <<>>) =>
        LET L == Len(loc.data)
            n == Len(new_date_str)
        IN  /\ Len(new_date_bytes) = L
            /\ n <= L => /\ SubSeq(new_date_bytes, 1, n) = new_date_str
                         /\ \A i \in (n + 1)..L : new_date_bytes[i] = NUL
            /\ n > L => new_date_bytes = SubSeq(new_date_str, 1, L)

\* an encoded text longer than the payload was truncated
C3_Witness ==
    /\ new_date_str # <<>>
    /\ Len(new_date_str) > Len(loc.data)
    /\ Len(new_date_bytes) = Len(loc.data)

\* the operation found no chunk, or found one whose payload does not decode
NothingToPatch ==
    \/ loc.kind = "none"
    \/ loc.kind = "found" /\ pc # "parse" /\ current_date = NoneVal

C5_BackupRemoved ==
    (Returned /\ hist.backupCreated /\ hist.faults = 0) => ~fs[BackupPath].exists

\* C6: the backup is complete before the first write to the target, and
\* whenever the target differs from its pre-operation content while the write
\* has not completed, the backup path holds the pre-operation content.
C6_BackupCoversWrite ==
    /\ hist.writes > 0 => hist.backupCreated
    /\ (fs[FilePath] # orig /\ ~hist.writeDone) => fs[BackupPath] = orig

\* the write failed part-way and the handler has not run yet
C6_Witness ==
    /\ pc = "except" /\ hist.writes = 1 /\ ~hist.writeDone
    /\ fs[FilePath] # orig /\ fs[FilePath].bytes # <<>>
    /\ fs[BackupPath] = orig

\* C7 (as claimed, for runs that write and at second precision): after a patch
\* that returns success, locating and decoding the chunk yields the timestamp
\* that was written, whatever the declared payload length.
C7_AsClaimed ==
    (ret = "True" /\ ~dry_run) => Readback = WholeSeconds(new_date)

\* C7 (amended): after a patch that returns success and is not a dry run, if
\* the declared payload length is at least the length of the encoded text and
\* the written year has four digits, locating and decoding the chunk yields
\* the timestamp that was written, at second precision.
C7_ReadbackWhenItFits ==
    (/\ ret = "True" /\ ~dry_run
     /\ Len(loc.data) >= Len(new_date_str)
     /\ YearOfOrdinal(new_date.ord) >= 1000)
        => Readback = WholeSeconds(new_date)

\* the fixer moved the date by MaxDeltaDays days and it reads back
C7_Witness ==
    /\ IsFixer /\ ret = "True" /\ time_delta = TimeDelta(MaxDeltaDays, 0, 0)
    /\ Readback = new_date
    /\ new_date.ord = current_date.ord + MaxDeltaDays

\* C8 (as claimed): in every caller the timestamp written is the timestamp
\* decoded from the chunk's current payload plus the parsed duration.
C8_AsClaimed ==
    ((IsFixer \/ IsBatch) /\ new_date_str # <<>>)
        => new_date = AddDelta(current_date, time_delta)

\* what process_single_file hands to the patcher, from its inputs
ShiftOrKeep(v) == IF AddDelta(v, time_delta) = Overflow THEN v ELSE AddDelta(v, time_delta)
BatchTimestamp ==
    LET read == { f \in DOMAIN meta.ts : meta.ts[f] # NoneVal }
        rank(f) == CHOOSE i \in 1..Len(timestamp_priority) : timestamp_priority[i] = f
        ranked == { f \in read : \E i \in 1..Len(timestamp_priority) : timestamp_priority[i] = f }
    IN  IF read = {} THEN ShiftOrKeep(orig_mtime)
        ELSE IF ranked = {} THEN NoneVal
        ELSE ShiftOrKeep(meta.ts[CHOOSE f \in ranked : \A g \in ranked : rank(f) <= rank(g)])

\* C8 (amended): fix_avi_date_inplace writes the timestamp decoded from the
\* chunk plus the duration; process_single_file writes the first metadata
\* timestamp read, in priority order, plus the duration, or, when none was
\* read, the file's modification time plus the duration (a value whose
\* addition overflows is written unshifted); it does not use the chunk's date.
C8_WrittenTimestamp ==
    (new_date_str # <<>>) =>
        /\ IsFixer => new_date = AddDelta(current_date, time_delta)
        /\ IsBatch => new_date = BatchTimestamp

\* process_single_file wrote a creation_time that outranks the recorded_date
C8_Witness ==
    /\ IsBatch /\ ret = "True"
    /\ meta.ts # NoFields
    /\ meta.ts["creation_time"] # NoneVal /\ meta.ts["recorded_date"] # NoneVal
    /\ new_date = AddDelta(meta.ts["creation_time"], time_delta)
    /\ new_date # AddDelta(current_date, time_delta)

\* the payload is the text the codec writes for its own date, NUL-padded
Canonical(payload) ==
    LET text == RStripNul(payload)
    IN  /\ Strptime(text) # NoneVal
        /\ text = Upper(Strftime(Strptime(text), padYear))

\* C9 (as claimed): fix_avi_date_inplace with a zero delta leaves every file
\* whose payload decodes byte-identical.
C9_AsClaimed ==
    (IsFixer /\ time_delta = ZeroDelta /\ ret = "True") => fs[FilePath] = orig

\* C9 (amended): fix_avi_date_inplace with a zero delta leaves the file
\* byte-identical when the payload is already the text the codec writes for
\* its date (upper case, the date's own weekday, two-digit fields),
\* right-padded with NUL bytes only.
C9_ZeroDeltaCanonical ==
    (IsFixer /\ time_delta = ZeroDelta /\ ret = "True" /\ Canonical(loc.data))
        => fs[FilePath] = orig

\* a NUL-padded canonical payload was rewritten with a zero delta
C9_Witness ==
    /\ IsFixer /\ time_delta = ZeroDelta /\ ret = "True"
    /\ Canonical(loc.data) /\ Len(loc.data) > Len(new_date_str)
    /\ hist.writes = 1 /\ fs[FilePath] = orig

\* C10: a locator returns a record only when offset + 8 + declared size is
\* within the buffer, its payload is then exactly that window; when the
\* declared window exceeds the buffer the result is NotFound.
C10_WindowInBuffer ==
    (IsLocate /\ pc = "done") =>
        \A i \in 1..3 :
            LET r == locs[i] IN
            /\ r.kind = "found" =>
                 /\ r.pos >= 0 /\ r.pos + 8 <= Len(data)
                 /\ LET L == UnpackLE32(SubSeq(data, r.pos + 5, r.pos + 8))
                    IN  /\ r.pos + 8 + L <= Len(data)
                        /\ Len(r.data) = L
                        /\ r.data = SubSeq(data, r.pos + 9, r.pos + 8 + L)
            /\ (HasSizeField(data) /\ ~HasChunk(data)) => r = NotFound

\* a buffer cut inside the payload: every locator answers NotFound
C10_Witness ==
    /\ IsLocate /\ pc = "done"
    /\ HasSizeField(data) /\ ~HasChunk(data)
    /\ TagOffset(data) + 8 < Len(data)
    /\ \A i \in 1..3 : locs[i] = NotFound

\* C11 (as claimed): when fewer than four bytes follow the first occurrence
\* of the tag, each of the three locators returns NotFound as a value and
\* does not raise.
ShortSizeField(buf) ==
    LET pos == TagOffset(buf) IN pos # -1 /\ Len(buf) - (pos + 4) < 4
C11_NotFoundOnShortSizeField ==
    (IsLocate /\ pc = "done" /\ ShortSizeField(data)) =>
        \A i \in 1..3 : locs[i] = NotFound

\* position i (0-based) of buf starts an occurrence of the tag
TagAt(buf, i) == i >= 0 /\ i + 4 <= Len(buf) /\ SubSeq(buf, i + 1, i + 4) = IDIT
FirstTag(buf, i) == TagAt(buf, i) /\ \A j \in 0..(i - 1) : ~TagAt(buf, j)
\* a whole chunk starts at position i: size field and declared window fit
ChunkAt(buf, i) ==
    /\ TagAt(buf, i) /\ i + 8 <= Len(buf)
    /\ i + 8 + UnpackLE32(SubSeq(buf, i + 5, i + 8)) <= Len(buf)
\* the first occurrence forms no chunk although a later occurrence does
LaterChunkOnly(buf) ==
    \E i \in 0..Len(buf) :
        /\ FirstTag(buf, i) /\ ~ChunkAt(buf, i)
        /\ \E j \in (i + 1)..Len(buf) : ChunkAt(buf, j)

\* C12: a locator's record carries the offset of the first occurrence of the
\* tag; when the first occurrence forms no chunk the locators of
\* avi_riff_utils and avi_riff_date_fixer return NotFound, also when a later
\* occurrence would form a chunk, and so does MetadataTimeChanger's whenever
\* a later occurrence exists.
C12_FirstOccurrenceOnly ==
    (IsLocate /\ pc = "done") =>
        /\ \A i \in 1..3 : locs[i].kind = "found" => FirstTag(data, locs[i].pos)
        /\ \A i \in 1..2 :
              (\E k \in 0..Len(data) : FirstTag(data, k) /\ ~ChunkAt(data, k))
                  => locs[i] = NotFound
        /\ LaterChunkOnly(data) => \A i \in 1..3 : locs[i] = NotFound

\* the first occurrence declares a window past the end and a whole chunk
\* follows it: every locator answers NotFound
C12_Witness ==
    /\ IsLocate /\ pc = "done"
    /\ LaterChunkOnly(data)
    /\ \A i \in 1..3 : locs[i] = NotFound

\* two whole chunks: every locator returns the first
C12_WitnessFirstOfTwo ==
    /\ IsLocate /\ pc = "done"
    /\ \E i, j \in 0..Len(data) : i < j /\ ChunkAt(data, i) /\ ChunkAt(data, j)
    /\ \A i \in 1..3 : locs[i].kind = "found" /\ locs[i].pos = 2

\* the text has the shape 'WWW MMM DD HH:MM:SS YYYY': 24 characters, upper-case
\* letters, digits, single spaces and colons at their places
IsUpperLetter(b) == b >= 65 /\ b <= 90
FixedShape(text, Letter(_)) ==
    /\ Len(text) = 24
    /\ \A i \in {1, 2, 3, 5, 6, 7} : Letter(text[i])
    /\ \A i \in {9, 10, 12, 13, 15, 16, 18, 19, 21, 22, 23, 24} : IsDigit(text[i])
    /\ \A i \in {4, 8, 11, 20} : text[i] = SP
    /\ \A i \in {14, 17} : text[i] = COLON
CanonForm(text) == FixedShape(text, IsUpperLetter)
FourDigitYear(t) == t.ord >= ToOrdinal(1000, 1, 1) /\ t.ord <= MaxOrdinal

\* C13: for every timestamp with second precision and a four-digit year,
\* parse_canon_date(format_canon_date(t)) is t, and format_canon_date(t) is
\* upper-case text of the form 'WWW MMM DD HH:MM:SS YYYY'.
C13_RoundTrip ==
    (IsFormat /\ pc = "done" /\ FourDigitYear(dt) /\ dt.us = 0) =>
        /\ decoded = dt
        /\ CanonForm(encoded)

\* an afternoon hour of a four-digit year went through both functions
C13_Witness ==
    /\ IsFormat /\ pc = "done" /\ FourDigitYear(dt) /\ dt.us = 0
    /\ dt.sec >= 13 * 3600
    /\ decoded = dt /\ CanonForm(encoded)

\* the exact grammar: fixed widths, names of three letters, and the weekday
\* that the date falls on
IsAnyLetter(b) == IsUpperLetter(b) \/ (b >= 97 /\ b <= 122)
IsName(tok, table) == \E i \in 1..Len(table) : Upper(table[i]) = Upper(tok)
NameNumber(tok, table) == CHOOSE i \in 1..Len(table) : Upper(table[i]) = Upper(tok)
TwoDigitValue(text, i) == 10 * DigitVal(text[i]) + DigitVal(text[i + 1])
ExactGrammar(text) ==
    /\ FixedShape(text, IsAnyLetter)
    /\ IsName(SubSeq(text, 1, 3), DayAbbr)
    /\ IsName(SubSeq(text, 5, 7), MonthAbbr)
    /\ LET y == 100 * TwoDigitValue(text, 21) + TwoDigitValue(text, 23)
           mo == NameNumber(SubSeq(text, 5, 7), MonthAbbr)
           d == TwoDigitValue(text, 9)
       IN  /\ y >= 1 /\ d >= 1 /\ d <= DaysInMonth(y, mo)
           /\ NameNumber(SubSeq(text, 1, 3), DayAbbr) = Weekday(ToOrdinal(y, mo, d)) + 1

\* C14 (as claimed): parse_canon_date returns None for every cleaned string
\* outside the exact grammar, in particular for a weekday that is wrong for
\* the date and for an hour, minute or second written with one digit.
C14_AsClaimed ==
    (IsParse /\ pc = "done" /\ ~ExactGrammar(CleanDate(date_str))) => decoded = NoneVal

\* what strptime's pattern asks of the text: five fields between runs of
\* whitespace, a weekday name, a month name, a day of one or two digits, three
\* colon-separated numbers of one or two digits, a year of four digits
ShortNumber(tok) == Len(tok) \in {1, 2} /\ \A i \in 1..Len(tok) : IsDigit(tok[i])
NumberOf(tok) == IF Len(tok) = 1 THEN DigitVal(tok[1]) ELSE TwoDigitValue(tok, 1)
LooseGrammar(text) ==
    LET f == Fields(text) IN
    /\ Len(f) = 5
    /\ IsName(f[1], DayAbbr) /\ IsName(f[2], MonthAbbr)
    /\ ShortNumber(f[3])
    /\ LET hms == ColonFields(f[4])
       IN  Len(hms) = 3 /\ \A i \in 1..3 : ShortNumber(hms[i])
    /\ Len(f[5]) = 4 /\ \A i \in 1..4 : IsDigit(f[5][i])
\* the values name a moment: a day of the month, hour < 24, minute and second < 60
ValuesInRange(text) ==
    LET f == Fields(text)
        hms == ColonFields(f[4])
        y == 100 * TwoDigitValue(f[5], 1) + TwoDigitValue(f[5], 3)
        mo == NameNumber(f[2], MonthAbbr)
    IN  /\ y >= 1
        /\ NumberOf(f[3]) >= 1 /\ NumberOf(f[3]) <= DaysInMonth(y, mo)
        /\ NumberOf(hms[1]) <= 23 /\ NumberOf(hms[2]) <= 59 /\ NumberOf(hms[3]) <= 59

\* C14 (amended): parse_canon_date returns None exactly for the cleaned
\* strings that are outside strptime's pattern or whose values are out of
\* range; a weekday name that is wrong for the date and fields of one digit
\* are accepted.
C14_RejectsOutsidePattern ==
    (IsParse /\ pc = "done") =>
        LET text == CleanDate(date_str)
        IN  (decoded = NoneVal) <=> ~(LooseGrammar(text) /\ ValuesInRange(text))

\* a text with a non-numeric day was rejected
C14_Witness ==
    /\ IsParse /\ pc = "done" /\ decoded = NoneVal
    /\ LET f == Fields(CleanDate(date_str))
       IN  Len(f) = 5 /\ IsName(f[1], DayAbbr) /\ IsName(f[2], MonthAbbr)
           /\ ~ShortNumber(f[3])

\* a text whose weekday is wrong for the date and whose hour has one digit
\* was decoded
C14_WitnessAccepted ==
    /\ IsParse /\ pc = "done" /\ decoded # NoneVal
    /\ ~ExactGrammar(CleanDate(date_str))
    /\ Len(CleanDate(date_str)) < 24

\* hours the claimed unit table gives a unit letter: y 365 days, m 30 days,
\* w 7 days, d 1 day, h 1/24 day, in either case
ClaimedHours(unit) ==
    LET u == IF unit >= 97 THEN unit - 32 ELSE unit
    IN  IF u = 89 THEN 365 * 24 ELSE IF u = 77 THEN 30 * 24
        ELSE IF u = 87 THEN 7 * 24 ELSE IF u = 68 THEN 24 ELSE IF u = 72 THEN 1 ELSE -1
RECURSIVE ClaimedSum(_)
ClaimedSum(items) ==
    IF items = <<>> THEN 0
    ELSE items[1].value * ClaimedHours(items[1].unit) + ClaimedSum(Tail(items))
SignOf(e) == IF e.sign = <<MINUS>> THEN -1 ELSE 1
\* hours of the expression: the sign applied once to the total
ClaimedTotal(e) ==
    IF e.kind = "bare" THEN SignOf(e) * 24 * e.items[1].value
    ELSE SignOf(e) * ClaimedSum(e.items)
WellFormed(e) ==
    /\ e.kind \in {"bare", "pairs"} /\ e.sign # <<>>
    /\ e.kind = "pairs" => \A i \in 1..Len(e.items) : ClaimedHours(e.items[i].unit) # -1
\* the timedelta, normalised, is h hours
IsHours(td, h) ==
    /\ td.us = 0 /\ td.seconds >= 0 /\ td.seconds < 86400 /\ td.seconds % 3600 = 0
    /\ td.days * 24 + td.seconds \div 3600 = h

\* C15: parse_time_adjustment returns sign * n days for a signed bare integer
\* n, and for signed <integer><unit> pairs the sign times the sum of the
\* values times y = 365, m = 30, w = 7, d = 1 days and h = 1/24 day, unit
\* letters in either case, the sign applied once to the total.
C15_SignedSum ==
    (IsAdjust /\ strict # NotParsed /\ WellFormed(expr)) =>
        /\ strict.raise = "none"
        /\ IsHours(strict.td, ClaimedTotal(expr))

\* "-2w 1d" was parsed as -15 days
C15_Witness ==
    /\ IsAdjust /\ pc = "done"
    /\ expr = PairsExpr(<<MINUS>>, << [value |-> 2, unit |-> 119], [value |-> 1, unit |-> 100] >>)
    /\ strict = Parsed(TimeDelta(-15, 0, 0))

\* "+1y 2m 3d" was parsed as 428 days
C15_WitnessThreePairs ==
    /\ IsAdjust /\ pc = "done" /\ Len(expr.items) = 3
    /\ strict = Parsed(TimeDelta(428, 0, 0))

\* the text after strip() and without its first character
Remainder(text) == Tail(Strip(text))
HasSign(text) == Strip(text) # <<>> /\ Strip(text)[1] \in {PLUS, MINUS}
HasPair(text) == \E i \in 1..(Len(text) - 1) : IsDigit(text[i]) /\ IsLetter(text[i + 1])
BareInteger(text) == text # <<>> /\ \A i \in 1..Len(text) : IsDigit(text[i])

C17_SameDuration ==
    (IsAdjust /\ pc = "done" /\ HasSign(time_string)
     /\ strict.raise = "none" /\ lenient.raise = "none") => strict.td = lenient.td

\* the lenient parser takes an unsigned expression as positive
C17_UnsignedIsPositive ==
    (IsAdjust /\ pc = "done" /\ expr.kind = "bare" /\ expr.sign = <<>>) =>
        /\ strict = Raises("TimeParsingError")
        /\ lenient = Parsed(TimeDelta(expr.items[1].value, 0, 0))

\* the four kinds of failure of a finished run of avi_riff_date_fixer.main
FileNotFoundRun == IsMain /\ pc = "done" /\ ~orig.exists
NoChunkRun == IsMain /\ pc = "done" /\ loc = NotFound /\ hist.faults = 0
UnparsableRun ==
    /\ IsMain /\ pc = "done" /\ hist.faults = 0
    /\ loc.kind = "found" /\ current_date = NoneVal
\* the first exception was raised by open(file_path, "wb") or by f.write
WriteFailureRun ==
    /\ IsMain /\ pc = "done" /\ hist.faults > 0
    /\ new_date_bytes # <<>> /\ ~hist.writeDone
\* what the caller of the tool gets: the value fix_avi_date_inplace returned
\* (when it was called) and the exit status
Outcome == << ret, exit_status >>
\* the outcome of a run on a missing file: line 183, sys.exit(1) before
\* fix_avi_date_inplace is called
FileNotFoundOutcome == << "running", 1 >>
\* the outcome of a run on a file without a chunk: lines 92-97 and 215
NoChunkOutcome == << "False", 1 >>

\* C18 (as claimed): the outcomes of the four failure kinds of the AVI patch
\* tool differ from each other: the exit status, and the returned value,
\* of one kind is never that of another kind.
C18_Distinguishable ==
    /\ (NoChunkRun \/ UnparsableRun \/ WriteFailureRun)
          => Outcome[2] # FileNotFoundOutcome[2]
    /\ (UnparsableRun \/ WriteFailureRun)
          => (Outcome[1] # NoChunkOutcome[1] /\ Outcome[2] # NoChunkOutcome[2])

\* every failure kind ends in exit status 1, and the three that reach
\* fix_avi_date_inplace in the return value False
C18_AllCollapse ==
    /\ FileNotFoundRun => Outcome = FileNotFoundOutcome
    /\ (NoChunkRun \/ UnparsableRun \/ WriteFailureRun) => Outcome = NoChunkOutcome
C18_WitnessWriteFailure == WriteFailureRun /\ exit_status = 1
C18_WitnessUnparsable == UnparsableRun /\ exit_status = 1
C18_WitnessNoChunk == NoChunkRun /\ exit_status = 1
C18_WitnessFileNotFound == FileNotFoundRun /\ exit_status = 1

\* s is a prefix of t
IsPrefix(s, t) == Len(s) <= Len(t) /\ SubSeq(t, 1, Len(s)) = s

\* C19: in the loop of metadata_time_changer.main, process_single_file is
\* called on every discovered file, in order, whatever happened to the files
\* before it, and the list of errors is only appended to until the
\* end-of-run report, which lists all of it.
C19_EveryFileProcessed ==
    [][ /\ IsPrefix(errors, errors')
        /\ (IsLoop /\ pc' = "done" /\ strict'.raise = "none") =>
              /\ invoked' = [i \in 1..Len(media_files) |-> i]
              /\ Len(results') = Len(media_files)
              /\ reported' = errors' ]_vars

\* the first of two files was not processed and left an error, the second
\* was processed, and the report lists the error
C19_Witness ==
    /\ IsLoop /\ pc = "done" /\ Len(media_files) = 2
    /\ invoked = << 1, 2 >>
    /\ ~results[1].processed /\ results[2].processed
    /\ reported # <<>> /\ reported = errors

\* the other operation
Other(i) == 3 - i
Target(i) == procs[i].file_path
Finished == IsParallel /\ \A i \in ProcIds : procs[i].pc = "done"

\* the backup path of each target differs from the other target's backup
\* path and from the other target's own path
BackupPathsExclusive ==
    \A i \in ProcIds : /\ BackupOf(i) # BackupOf(Other(i))
                       /\ BackupOf(i) # Target(Other(i))
\* no operation has created, overwritten or deleted the other's target or backup
NoForeignFileTouched ==
    \A i \in ProcIds : procs[i].touched \cap { Target(Other(i)), BackupOf(Other(i)) } = {}
\* an operation that ran alone on a file with these bytes: what it returns
\* and what the file holds afterwards
Alone(bytes) ==
    LET patched == PatchBuffer(ParFixer, bytes) IN
    [ret |-> IF patched.kind = "ok" THEN "True" ELSE "False",
     file |-> File(patched.data)]
\* when both have returned, each has returned, and its file holds, what it
\* would had it run alone
ResultsAsAlone ==
    Finished =>
        \A i \in ProcIds :
            /\ procs[i].ret = Alone(procs[i].original).ret
            /\ disk[Target(i)] = Alone(procs[i].original).file

\* C20: two patch operations running in parallel on two distinct targets do
\* not interfere: their backup paths differ from each other and from the
\* other target, no operation touches the other's target or backup, and each
\* returns and leaves in its file what it would when run alone.
C20_NoInterference ==
    (IsParallel /\ Target(1) # Target(2)) => BackupPathsExclusive /\ NoForeignFileTouched /\ ResultsAsAlone

\* targets whose own paths and backup paths are all different are patched
\* as if each ran alone
DisjointTargetsDoNotInterfere ==
    (IsParallel /\ BackupPathsExclusive) => NoForeignFileTouched /\ ResultsAsAlone
\* one operation has deleted the other's target
C20_ForeignTargetDeleted ==
    /\ Finished
    /\ \E i \in ProcIds : ~disk[Target(i)].exists /\ Target(i) \in procs[Other(i)].touched

\* both operations patch the same file
SameTarget == IsParallel /\ Target(1) = Target(2)
\* operation i has written its buffer to the file and returned False
FailedAfterWrite(i) ==
    /\ procs[i].pc = "done" /\ procs[i].ret = "False"
    /\ Target(i) \in procs[i].touched

\* C21: two runs of fix_avi_date_inplace on the same file share one backup
\* path and race on it: an operation that has written the file and then
\* reports failure does so because the other operation removed the backup it
\* relied on; the backup is gone, the file is not restored to the content it
\* had before the operations.
C21_RaceOnSharedBackup ==
    (ParFixer /\ SameTarget) =>
        /\ BackupOf(1) = BackupOf(2)
        /\ \A i \in ProcIds :
              FailedAfterWrite(i) =>
                  /\ BackupOf(i) \in procs[Other(i)].removed
                  /\ ~disk[BackupOf(i)].exists
                  /\ disk[Target(i)] # File(procs[i].original)

\* the first operation has removed the backup and returned True; the second
\* wrote the file, found no backup to remove and returned False
C21_Witness ==
    /\ ParFixer /\ SameTarget /\ Finished
    /\ procs[1].ret = "True" /\ FailedAfterWrite(2)
    /\ BackupOf(2) \in procs[1].removed
    /\ disk[Target(2)] = Alone(procs[2].original).file

\* process_single_file has returned (to its caller or to the loop of main)
SingleFileDone == (IsSingle /\ pc = "done") \/ (IsLoop /\ pc = "count")

\* C22: with dry_run=True, process_single_file,
\* write_avi_metadata_safe_inplace_modify and write_video_metadata_with_ffmpeg
\* write to no file: content and modification time of the target are
\* unchanged, no backup or temporary file appears, no other file changes; and
\* process_single_file reports processed, metadata_updated and
\* filesystem_updated all True.
C22_DryRunWritesNothing ==
    dry_run =>
        /\ IsChanger => /\ fs[FilePath] = orig /\ mt[FilePath] = orig_mtime
                        /\ ~fs[BackupPath].exists
        /\ IsFfmpeg => disk = disk0
        /\ SingleFileDone => /\ result.processed /\ result.metadata_updated
                             /\ result.filesystem_updated

\* the part of C22 about the two AVI entry points: nothing is written
DryRunAviWritesNothing ==
    (dry_run /\ IsChanger) => /\ fs[FilePath] = orig /\ mt[FilePath] = orig_mtime
                              /\ ~fs[BackupPath].exists
\* a dry run of write_video_metadata_with_ffmpeg has returned True and a file
\* that was at the temporary path is gone
DryRunRemovedFile ==
    /\ IsFfmpeg /\ dry_run /\ pc = "done" /\ ret = "True"
    /\ disk0[temp_output].exists /\ ~disk[temp_output].exists
\* a dry run of process_single_file on a file that does not exist
DryRunMissingFile ==
    /\ dry_run /\ SingleFileDone /\ ~orig.exists /\ ~result.processed

\* write_video_metadata_with_ffmpeg has returned True or False
FfmpegReturned == IsFfmpeg /\ pc = "done" /\ ret \in { "True", "False" }

\* C27: whenever write_video_metadata_with_ffmpeg returns, also after a
\* failure of ffmpeg or of a rename, the original path holds the complete
\* original content or the complete output of ffmpeg, and no temporary file
\* is left.
C27_OriginalOrOutput ==
    FfmpegReturned =>
        /\ disk[VideoPath] \in { File(VideoContent),
                                 File(FfmpegOutput(VideoContent, timestamp)) }
        /\ ~disk[temp_output].exists

\* the second rename raised: the function has returned False, nothing is at
\* the original path, the original content is at the backup path
FfmpegLostOriginalPath ==
    /\ FfmpegReturned /\ ret = "False" /\ ~dry_run
    /\ ~disk[VideoPath].exists /\ ~disk[temp_output].exists
    /\ disk[backup_file] = File(VideoContent)
\* without a failing rename and without a file left at the temporary path
\* from before, the claim holds
FfmpegReplaceWithoutRenameFault ==
    (FfmpegReturned /\ disk[VideoPath].exists /\ ~disk0[temp_output].exists) =>
        /\ disk[VideoPath] \in { File(VideoContent),
                                 File(FfmpegOutput(VideoContent, timestamp)) }
        /\ ~disk[temp_output].exists

\* NUL or whitespace
IsPadding(b) == b = NUL \/ IsSpace(b)
\* the text without its longest suffix of NUL and whitespace characters
WithoutPadding(text) ==
    LET keep == { n \in 0..Len(text) : \A k \in (n + 1)..Len(text) : IsPadding(text[k]) }
    IN  Take(text, CHOOSE n \in keep : \A m \in keep : n <= m)

\* C26: a valid timestamp text followed by NUL and whitespace characters in
\* any order decodes to what the text alone decodes to.
C26_PaddingIgnored ==
    (IsParse /\ pc = "done" /\ parse_canon_date(WithoutPadding(date_str)) # NoneVal) =>
        decoded = parse_canon_date(WithoutPadding(date_str))

\* whitespace, then NULs, then whitespace, is the padding that is removed
C26_OrderedPaddingIgnored ==
    (IsParse /\ pc = "done" /\ parse_canon_date(WithoutPadding(date_str)) # NoneVal
       /\ \E a, b, c \in 0..3 :
            /\ Len(date_str) = Len(WithoutPadding(date_str)) + a + b + c
            /\ \A k \in 1..(a + b + c) :
                 LET x == date_str[Len(WithoutPadding(date_str)) + k]
                 IN  IF k <= a \/ k > a + b THEN IsSpace(x) ELSE x = NUL) =>
        decoded = parse_canon_date(WithoutPadding(date_str))
\* a valid text followed by NUL, space, NUL is not decoded
C26_InterleavedPaddingRejected ==
    /\ IsParse /\ pc = "done" /\ date_str = TextCanonical \o <<NUL, SP, NUL>>
    /\ decoded = NoneVal

RECURSIVE PairsAndSpaces(_, _)
PairsAndSpaces(text, digits) ==
    IF text = <<>> THEN ~digits
    ELSE IF IsDigit(text[1]) THEN PairsAndSpaces(Tail(text), TRUE)
    ELSE IF IsLetter(text[1]) THEN digits /\ PairsAndSpaces(Tail(text), FALSE)
    ELSE IsSpace(text[1]) /\ ~digits /\ PairsAndSpaces(Tail(text), FALSE)
\* what follows the sign is a bare integer or a sequence of pairs
InGrammar(text) == BareInteger(text) \/ (HasPair(text) /\ PairsAndSpaces(text, FALSE))

\* C30: parse_time_adjustment raises TimeParsingError for every signed text
\* whose remainder is neither a bare integer nor a sequence of
\* <integer><letter> pairs separated by whitespace.
C30_OnlyGrammar ==
    (IsAdjust /\ strict # NotParsed /\ HasSign(time_string)
       /\ ~InGrammar(Remainder(time_string))) =>
        strict = Raises("TimeParsingError")

\* "+1d junk" is taken as one day
C30_JunkIgnored ==
    /\ IsAdjust /\ strict # NotParsed
    /\ time_string = <<43, 49, 100, 32, 106, 117, 110, 107>>
    /\ strict = Parsed(TimeDelta(1, 0, 0))
\* texts inside the grammar with known units are accepted
C30_GrammarAccepted ==
    (IsAdjust /\ strict # NotParsed /\ expr.kind = "pairs" /\ expr.sign # <<>>
       /\ \A i \in 1..Len(expr.items) : ClaimedHours(expr.items[i].unit) # -1) =>
        /\ InGrammar(Remainder(time_string))
        /\ strict.raise = "none"

\* the candidates as the claim names them: the original name, then the name
\* with the counters 2, 3, ...
ClaimedCandidate(original, k) == IF k = 1 THEN original ELSE Append(original, k)
\* the call of generate_unique_filename on its own: directory, name, content
CalledDirectory == destination0[discovered_media_files[1].folder]
CalledName == discovered_media_files[1].name
\* candidate k exists with a content other than the source's
TakenByOther(k) ==
    /\ Exists(CalledDirectory, ClaimedCandidate(CalledName, k))
    /\ ContentAt(CalledDirectory, ClaimedCandidate(CalledName, k))
          # discovered_media_files[1].content
TakenBySame(k) ==
    /\ Exists(CalledDirectory, ClaimedCandidate(CalledName, k))
    /\ ContentAt(CalledDirectory, ClaimedCandidate(CalledName, k))
          = discovered_media_files[1].content

\* C23: generate_unique_filename tries the original name, base_002, base_003,
\* ... in order; it returns the first candidate that does not exist, None when
\* a candidate reached before exists with the content of the source, and
\* raises ValueError when the candidates up to 999 are all taken by other
\* files. A returned name never names a file of the directory.
C23_FirstFreeCandidate ==
    (IsGenerate /\ pc = "done") =>
        /\ unique_filename.kind \in { "name", "None", "ValueError" }
        /\ unique_filename.kind = "name" =>
              /\ ~Exists(CalledDirectory, unique_filename.name)
              /\ \E k \in 1..SafetyLimit :
                    /\ unique_filename.name = ClaimedCandidate(CalledName, k)
                    /\ \A j \in 1..(k - 1) : TakenByOther(j)
        /\ unique_filename.kind = "None" =>
              \E k \in 1..SafetyLimit :
                    /\ TakenBySame(k)
                    /\ \A j \in 1..(k - 1) : TakenByOther(j)
        /\ unique_filename.kind = "ValueError" =>
              \A k \in 1..SafetyLimit : TakenByOther(k)

\* a.jpg and a_002.jpg are taken by other files: a_003.jpg is returned
C23_Witness ==
    /\ IsGenerate /\ pc = "done"
    /\ CalledName = <<"a">> /\ CalledDirectory = Taken(2, {}, 0)
    /\ unique_filename = NameFound(<<"a", 3>>)
\* all 999 candidates are taken by other files: ValueError
C23_WitnessLimit ==
    /\ IsGenerate /\ pc = "done" /\ unique_filename = ValueError
    /\ Cardinality(CalledDirectory) = SafetyLimit
\* candidate 999 holds the content of the source: None
C23_WitnessLastIsDuplicate ==
    /\ IsGenerate /\ pc = "done" /\ unique_filename = NoneFound
    /\ CalledDirectory = Taken(SafetyLimit, {}, SafetyLimit)

\* the files of the tree that were not there before the run
NewFiles(folder) == destination[folder] \ destination0[folder]
ResultType(i) == file_results[i].type

\* C24: in one run of organize_files a content is copied at most once: after
\* a file was copied, every later source file with the same content is
\* skipped, counted in duplicates_skipped and not copied, whatever its name
\* and date folder.
C24_CopiedAtMostOnce ==
    IsOrganize =>
        /\ \A i, j \in 1..Len(file_results) :
              (i < j /\ ResultType(i) = "processed"
                 /\ discovered_media_files[i].content = discovered_media_files[j].content)
                 => ResultType(j) = "skipped"
        /\ organization_statistics.duplicates_skipped =
              Cardinality({ j \in 1..Len(file_results) :
                              ResultType(j) \in { "skipped", "duplicate" } })
        /\ \A c \in {1, 2} :
              Cardinality({ i \in 1..Len(file_results) :
                              /\ ResultType(i) = "processed"
                              /\ discovered_media_files[i].content = c }) <= 1

\* a file was copied; a later file with its content, another name and another
\* date folder was skipped
C24_Witness ==
    /\ IsOrganize /\ pc = "done" /\ Len(file_results) >= 2
    /\ ResultType(1) = "processed" /\ ResultType(2) = "skipped"
    /\ discovered_media_files[1].content = discovered_media_files[2].content
    /\ discovered_media_files[1].folder # discovered_media_files[2].folder
    /\ ~discovered_media_files[2].in_destination
    /\ organization_statistics.duplicates_skipped >= 1

\* C25: organize_files leaves every file that was in the destination tree in
\* place with its content, leaves the source files as they are, and every
\* file it has copied holds the content of its source.
C25_ExistingFilesKept ==
    IsOrganize =>
        /\ \A d \in Folders : destination0[d] \subseteq destination[d]
        /\ \A d \in Folders : \A f, g \in destination[d] : f.name = g.name => f = g
        /\ \A i \in 1..Len(file_results) :
              ResultType(i) = "processed" =>
                 [name |-> file_results[i].name,
                  content |-> discovered_media_files[i].content]
                    \in NewFiles(discovered_media_files[i].folder)

\* a.jpg and a_002.jpg were taken by other files: the source a.jpg went to
\* a_003.jpg and both are as before
C25_Witness ==
    /\ IsOrganize /\ pc = "done" /\ Len(file_results) >= 1
    /\ Cardinality(destination0["2006_08_28"]) = 2
    /\ ResultType(1) = "processed" /\ file_results[1].name = <<"a", 3>>
    /\ organization_statistics.conflicts_resolved >= 1

RECURSIVE SumOver(_, _)
SumOver(count, keys) ==
    IF keys = {} THEN 0
    ELSE LET k == CHOOSE x \in keys : TRUE IN count[k] + SumOver(count, keys \ {k})

\* C28: after organize_files every discovered file is counted exactly once:
\* processed + duplicates_skipped + errors = total_files, conflicts_resolved
\* <= processed, and the per-folder counts of files_by_date sum to processed.
C28_CountedOnce ==
    (IsOrganize /\ pc = "done") =>
        /\ organization_statistics.processed + organization_statistics.duplicates_skipped
              + organization_statistics.errors = organization_statistics.total_files
        /\ organization_statistics.total_files = Len(discovered_media_files)
        /\ organization_statistics.conflicts_resolved <= organization_statistics.processed
        /\ SumOver(organization_statistics.files_by_date, Folders)
              = organization_statistics.processed

\* a run that copied a file under a new name, found a duplicate in the
\* destination and failed on a copy
C28_Witness ==
    /\ IsOrganize /\ pc = "done" /\ Len(discovered_media_files) = 3
    /\ \E i, j, k \in 1..3 :
          ResultType(i) = "processed" /\ ResultType(j) = "duplicate" /\ ResultType(k) = "error"
    /\ organization_statistics.conflicts_resolved = 1

====
